---- MODULE Spec2Model ----
(***************************************************************************)
(* Model of the ODIN web SDK session layer.                                *)
(*                                                                         *)
(*  Part I   the RPC Connection (class Stream, stream.ts): request         *)
(*           correlation, per-request timeouts, close handling.            *)
(*  Part II  the Room reducer (class OdinRoom, room.ts): the handlers of   *)
(*           the RoomUpdated and PeerUpdated notifications.                *)
(*                                                                         *)
(* Each part has its own next-state relation and specification; the        *)
(* variables of the other part stay as Init leaves them.                   *)
(***************************************************************************)
EXTENDS Integers, Sequences, FiniteSets, TLC

(***************************************************************************)
(* Bounds of the model.                                                    *)
(***************************************************************************)
\* Number of request() calls made on the Connection.
MaxRequests == 3

\* The default of the _timeout constructor parameter (milliseconds).
DefaultTimeout == 5000

\* Request ids handed out by nextId++; one more id exists on the wire than
\* was ever sent, so that a response frame can carry an id nobody asked for.
Ids == 0 .. (MaxRequests - 1)
WireIds == 0 .. MaxRequests

\* message[2] of a response frame: null, or the server's error string.
NoError == "null"
ServerMessages == {"denied"}

VARIABLES
    \* ---- Part I: Stream -------------------------------------------------
    websocket,      \* _websocket: "connecting" | "open" | "closing" (handle kept,
                    \* close() called) | "null" (dropped by the close listener)
    requests,       \* _requests: the ids that have a pending entry
    nextId,         \* nextId
    timers,         \* per id, its timeoutHandle: "none" | "armed" | "cleared" | "fired"
    streamTimeout,  \* _timeout
    settled,        \* per id, every resolve()/reject() call made on its promise, in order
    pendingAtClose,        \* history: ids that had an entry when the close listener ran
    outstandingAtTimeout,  \* history: ids that had an entry when another id timed out
    closedByTimer,         \* history: ids whose timeout callback called stream.close()
    inbound,               \* history: the last frame received and what receive() did
    \* ---- Part II: OdinRoom ----------------------------------------------
    connectionState,  \* _connectionState
    ownPeer,          \* _ownPeer: [defined, id, freeMediaIds, medias]
    roomData,         \* _data
    customer,         \* _customer
    remotePeers,      \* _remotePeers: peer id -> the OdinPeer object stored under it
    peerObjs,         \* the OdinPeer objects alive: object -> [id, userId, data, medias]
    audioMedias,      \* OdinAudioService._medias: ids of the started medias
    events,           \* the events dispatched by the last step of the room
    roomStream,       \* _roomStream: "none" | "open" | "closing" | "closed"
    joinPc,           \* where join() stands
    received,         \* message events delivered on the room channel so far
    tasks,            \* the microtask queue: the continuations that are ready to run
    dispatching,      \* the socket may still emit a message event in the running task
    current,          \* history: the update record whose application began last
    replay,           \* history of the replay harness (ReplaySpec)
    mediaCalls,       \* the media calls of the application (MediaSpec, PeerSpec)
    \* ---- Part III: the audio worklet ------------------------------------
    decoder,          \* the DecoderBlock processor
    encoder,          \* the Encoder processor
    \* ---- Part IV: OdinClient ---------------------------------------------
    client            \* the static fields of OdinClient and where connect() stands

streamVars == <<websocket, requests, nextId, timers, streamTimeout, settled,
                pendingAtClose, outstandingAtTimeout, closedByTimer, inbound>>

roomVars == <<connectionState, ownPeer, roomData, customer, remotePeers, peerObjs,
              audioMedias, events, roomStream, joinPc, received, tasks, dispatching,
              current>>

workletVars == <<decoder, encoder>>

vars == <<streamVars, roomVars, replay, mediaCalls, workletVars, client>>

(***************************************************************************)
(* Part I: Stream                                                          *)
(***************************************************************************)
Resolved == [kind |-> "resolve", value |-> "result"]
Rejected(msg) == [kind |-> "reject", value |-> msg]
ClosedError == Rejected("closed")
TimeoutError == Rejected("timeout at method")
StreamClosedError == Rejected("stream closed")
NotOpenError == Rejected("InvalidStateError")

\* One more call of resolve/reject on the promise of request id.
Settle(s, id, outcome) == [s EXCEPT ![id] = Append(@, outcome)]

\* ---- Frames -----------------------------------------------------------------
\* A value unpack() yields; t says what kind of value it is.
Value(t, n, s) == [t |-> t, n |-> n, s |-> s]
Num(n) == Value("integer", n, "")
Frac == Value("fraction", 0, "")
Str(s) == Value("string", 0, s)
Null == Value("null", 0, "")
Obj == Value("object", 0, "")

\* typeof value
typeof(v) ==
    CASE v.t \in {"integer", "fraction"} -> "number"
      [] v.t = "string" -> "string"
      [] v.t = "boolean" -> "boolean"
      [] v.t \in {"null", "object", "array"} -> "object"

\* A message event: bytes that unpack() decodes to an array, bytes that
\* decode to some other value, or bytes on which unpack() throws.
Frame(kind, items) == [kind |-> kind, items |-> items]
ArrayFrame(items) == Frame("array", items)
NoFrame == [frame |-> Frame("none", <<>>), branch |-> "none", handler |-> FALSE,
            sent |-> FALSE, hit |-> FALSE]

\* receive(): the validity check of a response frame, `case 1`
ResponseValidUnpaired(m) ==
    /\ Len(m) = 4
    /\ typeof(m[2]) = "number"
    /\ (m[3] = Null \/ typeof(m[3]) = "string")
    /\ (m[4] = Null \/ typeof(m[4]) = "object")

ResponseValid(m) ==
    /\ Len(m) = 4
    /\ typeof(m[2]) = "number"
    /\ (m[3] = Null \/ typeof(m[3]) = "string")
    /\ (m[4] = Null \/ typeof(m[4]) = "object")
    /\ (m[3] = Null \/ m[4] = Null)

\* receive(): the validity check of a request frame, `case 0`
RequestValid(m) ==
    /\ Len(m) = 4
    /\ typeof(m[2]) = "number"
    /\ typeof(m[3]) = "string"
    /\ typeof(m[4]) = "object"

\* receive(): the validity check of a notification frame, `case 2`
NotificationValid(m) ==
    /\ Len(m) = 3
    /\ typeof(m[2]) = "string"
    /\ typeof(m[3]) = "object"

\* The branch receive() takes for a frame.
Branch(frame) ==
    IF frame.kind = "garbage" THEN "unpack threw"
    ELSE IF ~(/\ frame.kind = "array"
              /\ Len(frame.items) > 0
              /\ typeof(frame.items[1]) = "number")
      THEN "invalid message"
    ELSE LET m == frame.items
         IN CASE m[1] = Num(0) -> IF RequestValid(m) THEN "request" ELSE "invalid request"
              [] m[1] = Num(1) -> IF ResponseValid(m) THEN "response" ELSE "invalid response"
              [] m[1] = Num(2) -> IF NotificationValid(m) THEN "notification"
                                  ELSE "invalid notification"
              [] OTHER -> "no case"

\* Stream constructor: a WebSocket is being connected, nothing is pending.
InitStream ==
    /\ websocket = "connecting"
    /\ requests = {}
    /\ nextId = 0
    /\ timers = [i \in Ids |-> "none"]
    /\ streamTimeout \in {0, DefaultTimeout}
    /\ settled = [i \in Ids |-> <<>>]
    /\ pendingAtClose = {}
    /\ outstandingAtTimeout = {}
    /\ closedByTimer = {}
    /\ inbound = NoFrame

\* The WebSocket's open event.
WsOpen ==
    /\ websocket = "connecting"
    /\ websocket' = "open"
    /\ UNCHANGED <<requests, nextId, timers, streamTimeout, settled,
                   pendingAtClose, outstandingAtTimeout, closedByTimer, inbound>>

\* send(): `if (stream.websocket === null) throw new Error('stream closed')`
SendNeverRefused == FALSE
SendRefused == websocket = "null"

\* send(): `if (stream.timeout > 0) timeoutHandle = setTimeout(...)`
ArmTimerNever == "none"
ArmTimer == IF streamTimeout > 0 THEN "armed" ELSE "none"

\* Stream.request(method, params) and send(stream, id, method, params).
\* WebSocket.send throws while the socket is still connecting; on a closing
\* socket it discards the frame without throwing.
request ==
    /\ nextId < MaxRequests
    /\ nextId' = nextId + 1
    /\ IF SendRefused
         THEN /\ settled' = Settle(settled, nextId, StreamClosedError)
              /\ UNCHANGED <<requests, timers>>
         ELSE IF websocket = "connecting"
         THEN /\ settled' = Settle(settled, nextId, NotOpenError)
              /\ UNCHANGED <<requests, timers>>
         ELSE /\ requests' = requests \cup {nextId}
              /\ timers' = [timers EXCEPT ![nextId] = ArmTimer]
              /\ UNCHANGED settled
    /\ UNCHANGED <<websocket, streamTimeout, pendingAtClose,
                   outstandingAtTimeout, closedByTimer, inbound>>

\* Stream.close(): `if (this.websocket) this.websocket.close()`
CloseHandleNoop(ws) == ws
CloseHandle(ws) == IF ws \in {"connecting", "open"} THEN "closing" ELSE ws

close ==
    /\ websocket \in {"connecting", "open"}
    /\ websocket' = CloseHandle(websocket)
    /\ UNCHANGED <<requests, nextId, timers, streamTimeout, settled,
                   pendingAtClose, outstandingAtTimeout, closedByTimer, inbound>>

\* receiveResponse: `stream.requests.delete(id)`
ResponseKeepsEntry(id) == requests
ResponseClearsTable(id) == {}
ResponseKeeps(id) == requests \ {id}

\* receiveResponse(stream, id, error, result), reached from receive() for a
\* well-formed response frame.  A message event is delivered while the
\* handle exists; whether frames still arrive after close() was called
\* depends on the WebSocket implementation, so both are possible.
receiveResponse(id, error) ==
    /\ websocket \in {"open", "closing"}
    /\ IF id \notin requests
         THEN UNCHANGED <<requests, timers, settled>>
         ELSE /\ requests' = ResponseKeeps(id)
              /\ timers' = [timers EXCEPT ![id] =
                              IF @ = "armed" THEN "cleared" ELSE @]
              /\ settled' = Settle(settled, id,
                              IF error = NoError THEN Resolved ELSE Rejected(error))
    /\ UNCHANGED <<websocket, nextId, streamTimeout, pendingAtClose,
                   outstandingAtTimeout, closedByTimer>>

\* A number that is no request id: what requests.get() is asked for when
\* message[1] is not an integer.
NoRequest == -1

\* The message listener: receive(stream, e.data).  A request or notification
\* goes to receiveRequest, which calls the handler and, for a request,
\* sends a response frame while the handle exists.
receive(frame) ==
    /\ websocket \in {"open", "closing"}
    /\ LET b == Branch(frame)
           m == frame.items
           id == IF m[2].t = "integer" THEN m[2].n ELSE NoRequest
       IN  /\ inbound' = [frame |-> frame, branch |-> b,
                          handler |-> b \in {"request", "notification"},
                          sent |-> b = "request",
                          hit |-> b = "response" /\ id \in requests]
           /\ IF b = "response"
                THEN receiveResponse(id, IF m[3] = Null THEN NoError ELSE m[3].s)
                ELSE UNCHANGED <<websocket, requests, nextId, timers, streamTimeout,
                                 settled, pendingAtClose, outstandingAtTimeout,
                                 closedByTimer>>

\* A well-formed response frame for request id.
ResponseFrame(id, error) ==
    ArrayFrame(<<Num(1), Num(id),
                 IF error = NoError THEN Null ELSE Str(error),
                 IF error = NoError THEN Obj ELSE Null>>)

\* Response frames whose error and result are both null, or both set.
BothNull(id) == ArrayFrame(<<Num(1), Num(id), Null, Null>>)
BothSet(id) == ArrayFrame(<<Num(1), Num(id), Str("denied"), Obj>>)

\* Frames that are not one of the three envelopes: no array, no integer
\* tag in {0, 1, 2}, the wrong arity for the tag, or a field of the wrong
\* type (id: integer, method: string, params: structured value).
MalformedFrames ==
    {Frame("garbage", <<>>), Frame("value", <<>>), ArrayFrame(<<>>),
     ArrayFrame(<<Str("1"), Num(0), Null, Obj>>),
     ArrayFrame(<<Frac, Num(0), Null, Obj>>),
     ArrayFrame(<<Num(3), Num(0), Null, Obj>>),
     ArrayFrame(<<Num(1), Num(0), Null>>),
     ArrayFrame(<<Num(1), Str("0"), Null, Obj>>),
     ArrayFrame(<<Num(1), Num(0), Num(5), Null>>),
     ArrayFrame(<<Num(0), Num(7), Str("RoomUpdated")>>),
     ArrayFrame(<<Num(0), Num(7), Num(5), Obj>>),
     ArrayFrame(<<Num(0), Num(7), Str("RoomUpdated"), Num(5)>>),
     ArrayFrame(<<Num(0), Frac, Str("RoomUpdated"), Obj>>),
     ArrayFrame(<<Num(2), Str("RoomUpdated"), Obj, Obj>>),
     ArrayFrame(<<Num(2), Num(5), Obj>>),
     ArrayFrame(<<Num(2), Str("RoomUpdated"), Str("x")>>)}

\* The frames the server sends.
InboundFrames ==
    {ResponseFrame(id, error) : id \in WireIds, error \in {NoError} \cup ServerMessages}
    \cup {BothNull(id) : id \in {0}} \cup {BothSet(id) : id \in {0}}
    \cup {ArrayFrame(<<Num(0), Num(7), Str("RoomUpdated"), Obj>>),
          ArrayFrame(<<Num(2), Str("RoomUpdated"), Obj>>)}
    \cup MalformedFrames

\* The timeout callback: `if (stream.requests.delete(id))`
TimeoutAlwaysHits(id) == TRUE
TimeoutHits(id) == id \in requests

\* The setTimeout callback of request id.
timeoutFired(id) ==
    /\ timers[id] = "armed"
    /\ timers' = [timers EXCEPT ![id] = "fired"]
    /\ IF TimeoutHits(id)
         THEN /\ requests' = requests \ {id}
              /\ settled' = Settle(settled, id, TimeoutError)
              /\ websocket' = CloseHandle(websocket)
              /\ closedByTimer' = closedByTimer \cup {id}
              /\ outstandingAtTimeout' = outstandingAtTimeout \cup (requests \ {id})
         ELSE UNCHANGED <<requests, settled, websocket, closedByTimer,
                          outstandingAtTimeout>>
    /\ UNCHANGED <<nextId, streamTimeout, pendingAtClose, inbound>>

\* The close listener: `this._requests.clear()`
CloseKeeps == {}

\* The close listener registered by the constructor.
onClose ==
    /\ websocket # "null"
    /\ websocket' = "null"
    /\ settled' = [i \in Ids |->
                     IF i \in requests THEN Append(settled[i], ClosedError)
                                       ELSE settled[i]]
    /\ requests' = CloseKeeps
    /\ pendingAtClose' = pendingAtClose \cup requests
    /\ UNCHANGED <<nextId, timers, streamTimeout, outstandingAtTimeout, closedByTimer,
                   inbound>>

\* A step of the Connection leaves the room alone.
StreamOnly == UNCHANGED <<roomVars, replay, mediaCalls, workletVars, client>>

NextStream ==
    \/ WsOpen /\ StreamOnly
    \/ request /\ StreamOnly
    \/ close /\ StreamOnly
    \/ \E frame \in InboundFrames : receive(frame) /\ StreamOnly
    \/ \E id \in Ids : timeoutFired(id) /\ StreamOnly
    \/ onClose /\ StreamOnly

(***************************************************************************)
(* Part II: OdinRoom                                                       *)
(***************************************************************************)
\* Notifications delivered on the room channel.
MaxNotifications == 2

\* Peer ids and media ids are numbers assigned by the server.
PeerIds == {0, 1, 2}
MediaIds == {0, 1, 2}
NoId == -1

\* A media of a peer payload: { id, properties? }.
Audio(id) == [id |-> id, video |-> FALSE]
Video(id) == [id |-> id, video |-> TRUE]

\* A peer payload: { id, user_id, medias, user_data }.
PeerPayload(id, data, medias) ==
    [id |-> id, userId |-> "user", data |-> data, medias |-> medias]
NoPeer == PeerPayload(NoId, "", <<>>)

Zed == PeerPayload(0, "p1", <<Audio(1)>>)
Amy == PeerPayload(1, "p1", <<>>)
Bob == PeerPayload(2, "p1", <<Audio(1), Video(2)>>)
BobAgain == PeerPayload(2, "p2", <<Audio(2), Audio(1)>>)

\* An update record of a RoomUpdated notification (EVENT_SCHEMAS.RoomUpdated).
Update(kind, own, mids, data, cust, peers, peer, peerId) ==
    [kind |-> kind, own_peer_id |-> own, media_ids |-> mids, user_data |-> data,
     customer |-> cust, peers |-> peers, peer |-> peer, peer_id |-> peerId]
Joined(own, mids, peers) == Update("Joined", own, mids, "r1", "c1", peers, NoPeer, NoId)
RoomDataChanged(data) == Update("UserDataChanged", NoId, <<>>, data, "", <<>>, NoPeer, NoId)
PeerJoined(peer) == Update("PeerJoined", NoId, <<>>, "", "", <<>>, peer, NoId)
PeerLeft(peerId) == Update("PeerLeft", NoId, <<>>, "", "", <<>>, NoPeer, peerId)

JoinedRecords ==
    {Joined(0, <<1, 2>>, <<Bob>>), Joined(1, <<>>, <<>>),
     Joined(1, <<1, 2>>, <<Bob, Zed>>), Joined(1, <<2>>, <<Amy>>)}
RoomRecords ==
    JoinedRecords
    \cup {RoomDataChanged("r2")}
    \cup {PeerJoined(Bob), PeerJoined(BobAgain)}
    \cup {PeerLeft(id) : id \in PeerIds \cup {NoId}}

\* The params of a PeerUpdated notification (EVENT_SCHEMAS.PeerUpdated).
PeerUpdate(kind, peerId, media, mediaId, data) ==
    [kind |-> kind, peer_id |-> peerId, media |-> media, media_id |-> mediaId,
     user_data |-> data]
PeerUpdates ==
    {PeerUpdate("MediaStarted", 2, m, NoId, "") : m \in {Audio(2), Video(1)}}
    \cup {PeerUpdate("MediaStarted", 1, Audio(2), NoId, "")}
    \cup {PeerUpdate("MediaStopped", 2, Audio(NoId), m, "") : m \in MediaIds}
    \cup {PeerUpdate("UserDataChanged", 2, Audio(NoId), NoId, "p3")}

\* `!x` on a number: 0 counts as missing, like undefined.
Missing(n) == n = 0 \/ n = NoId

\* A value in a number field whose typeof is not 'number' (a string, say).
NotANumber == -2

\* The params of a MessageReceived notification (EVENT_SCHEMAS.MessageReceived);
\* NoMessage is a params object without the message field.
NoMessage == ""
Message(sender, message) == [sender_peer_id |-> sender, message |-> message]

\* ---- validate (schema-validation/schema.ts) with EVENT_SCHEMAS --------------
\* innerCheckValue for { type: 'Number' } and { type: 'Number', optional: true }
TypeofNumber(v) == v \notin {NoId, NotANumber}
OptionalNumber(v) == v = NoId \/ TypeofNumber(v)
\* { type: 'U8' }: any truthy value that has a constructor
U8(v) == v # NoMessage

MEDIAS(medias) == \A k \in DOMAIN medias : TypeofNumber(medias[k].id)
MEDIA(media) == media.id = NoId \/ TypeofNumber(media.id)
PEERS(peers) ==
    \A k \in DOMAIN peers : TypeofNumber(peers[k].id) /\ MEDIAS(peers[k].medias)
PEER(peer) == peer = NoPeer \/ (TypeofNumber(peer.id) /\ MEDIAS(peer.medias))

RoomUpdatedSchema(updates) ==
    \A k \in DOMAIN updates :
       /\ \A j \in DOMAIN updates[k].media_ids : TypeofNumber(updates[k].media_ids[j])
       /\ OptionalNumber(updates[k].own_peer_id)
       /\ PEERS(updates[k].peers)
       /\ PEER(updates[k].peer)
       /\ OptionalNumber(updates[k].peer_id)
PeerUpdatedSchema(params) ==
    /\ TypeofNumber(params.peer_id)
    /\ MEDIA(params.media)
    /\ OptionalNumber(params.media_id)
MessageReceivedSchema(params) ==
    /\ TypeofNumber(params.sender_peer_id)
    /\ U8(params.message)

validateNothing(nf) == TRUE

\* validate(params, 'parameters', schemas[method]) returns without throwing.
validate(nf) ==
    CASE nf.method = "RoomUpdated" -> RoomUpdatedSchema(nf.updates)
      [] nf.method = "PeerUpdated" -> PeerUpdatedSchema(nf.params)
      [] nf.method = "MessageReceived" -> MessageReceivedSchema(nf.params)

\* ---- Map<number, T> helpers ------------------------------------------
EmptyFn == [x \in {} |-> 0]
Put(f, k, v) == [x \in (DOMAIN f) \cup {k} |-> IF x = k THEN v ELSE f[x]]
Drop(f, k) == [x \in (DOMAIN f) \ {k} |-> f[x]]
Range(s) == {s[k] : k \in DOMAIN s}
\* The keys of a Map in insertion order.
MapSet(keys, k) == IF k \in Range(keys) THEN keys ELSE Append(keys, k)
MapDelete(keys, k) == SelectSeq(keys, LAMBDA x : x # k)

\* ---- The room as a value ---------------------------------------------
Oids == 0 .. (2 * Cardinality(PeerIds))
NoOid == NoId

Graph ==
    [cs |-> connectionState, own |-> ownPeer, data |-> roomData, customer |-> customer,
     remote |-> remotePeers, peers |-> peerObjs, audio |-> audioMedias, ev |-> events,
     pc |-> joinPc]

Ev(type, scope, peer, media) ==
    [type |-> type, scope |-> scope, peer |-> peer, media |-> media]
Fire(g, evs) == [g EXCEPT !.ev = @ \o evs]

NoOwnPeer == [defined |-> FALSE, id |-> NoId, data |-> "", freeMediaIds |-> <<>>,
              medias |-> <<>>]

\* new OdinPeer(stream, id, userId, false) followed by setFreeMediaIds(ids)
NewOwnPeer(id, ids) == [defined |-> TRUE, id |-> id, data |-> "", freeMediaIds |-> ids,
                        medias |-> <<>>]

\* set connectionState(state)
StateChanged(oldState, newState) ==
    [type |-> "ConnectionStateChanged", scope |-> "room", peer |-> NoId, media |-> NoId,
     oldState |-> oldState, newState |-> newState]

SetConnectionStateLoudly(g, state) ==
    LET h == Fire([g EXCEPT !.cs = state], <<StateChanged(g.cs, state)>>)
    IN  IF state = "disconnected"
          THEN Fire(h, <<Ev("Left", "room", NoId, NoId)>>)
          ELSE h

SetConnectionState(g, state) ==
    IF g.cs = state THEN g
    ELSE LET h == Fire([g EXCEPT !.cs = state], <<StateChanged(g.cs, state)>>)
         IN  IF state = "disconnected"
               THEN Fire(h, <<Ev("Left", "room", NoId, NoId)>>)
               ELSE h

\* ---- OdinRoom.addRemotePeer ----------------------------------------------
\* The object a `new OdinPeer` gets: one that is not alive.
FreshOid(g) == CHOOSE o \in Oids : o \notin DOMAIN g.peers /\
                   \A q \in Oids : q \notin DOMAIN g.peers => o <= q

\* medias.forEach: video medias are skipped, the others go through peer.addMedia
RECURSIVE AddMedias(_, _)
AddMedias(keys, medias) ==
    IF medias = <<>> THEN keys
    ELSE AddMedias(IF Head(medias).video THEN keys ELSE MapSet(keys, Head(medias).id),
                   Tail(medias))

\* `if (peerId === this._ownPeer.id) throw`; reading .id of an _ownPeer that
\* was never assigned throws as well.
AddRemotePeerThrows(g, peerId) == ~g.own.defined \/ peerId = g.own.id

\* `this._remotePeers.set(peerId, peer)`
RemoteSet(remote, peerId, oid) == Put(remote, peerId, oid)

\* `new OdinMedia(media.id, peerId, true)` for each media held: the peer id
\* each media object carries.
Owners(keys, peerId) == [m \in Range(keys) |-> peerId]

addRemotePeer(g, payload) ==
    LET oid == FreshOid(g)
        held == AddMedias(<<>>, payload.medias)
        peer == [id |-> payload.id, userId |-> payload.userId, data |-> payload.data,
                 medias |-> held, owner |-> Owners(held, payload.id)]
    IN  [g EXCEPT !.peers = Put(@, oid, peer),
                  !.remote = RemoteSet(@, payload.id, oid)]

\* One event on the peer and one on the room for each media.
RECURSIVE MediaEvents(_, _, _)
MediaEvents(type, peerId, keys) ==
    IF keys = <<>> THEN <<>>
    ELSE <<Ev(type, "peer", peerId, Head(keys)), Ev(type, "room", peerId, Head(keys))>>
         \o MediaEvents(type, peerId, Tail(keys))

\* The PeerJoined event and the MediaStarted events that follow addRemotePeer.
AnnouncePeerSilently(g, peerId) == g
AnnouncePeer(g, peerId) ==
    Fire(g, <<Ev("PeerJoined", "room", peerId, NoId)>>
            \o MediaEvents("MediaStarted", peerId, g.peers[g.remote[peerId]].medias))

\* ---- How the application of a record ends --------------------------------
\* What a suspended removePeer has done so far: the medias the peer held
\* when it was called, and those it has announced as stopped.
NoLog == [held |-> <<>>, fired |-> <<>>]

Outcome(g, st, peer, oid, media, log) ==
    [g |-> g, st |-> st, peer |-> peer, oid |-> oid, media |-> media, log |-> log]
Completed(g) == Outcome(g, "done", NoId, NoOid, NoId, NoLog)
Thrown(g) == Outcome(g, "threw", NoId, NoOid, NoId, NoLog)
\* removePeer is suspended at `await media[1].stop()`
Stopping(g, peer, oid, media, log) == Outcome(g, "stopping", peer, oid, media, log)
\* removePeer has returned, roomUpdated is suspended at `await this.removePeer(..)`
Left(g) == Outcome(g, "left", NoId, NoOid, NoId, NoLog)

\* ---- OdinRoom.removePeer -------------------------------------------------
\* OdinMedia.stop() up to its return, for a remote media: a started media
\* is unregistered from the audio service.
MediaStop(audio, media) == audio \ {media}

\* `this._remotePeers.delete(peerId)`
RemoteDelete(remote, peerId) == Drop(remote, peerId)

\* The PeerLeft event as its listeners get it: dispatchEvent runs them before
\* it returns, and `listed` is what room.remotePeers holds for them.
PeerLeftEvent(g, peerId) ==
    [type |-> "PeerLeft", scope |-> "room", peer |-> peerId, media |-> NoId,
     listed |-> DOMAIN g.remote]

\* The for loop over peer.medias.entries(), entered or re-entered: the next
\* entry of the map is announced as stopped and stop() is awaited, or the
\* loop is over, PeerLeft fires and the peer is deleted from the map.
removePeerLoop(g, peerId, oid, log) ==
    LET medias == g.peers[oid].medias
    IN  IF medias = <<>>
          THEN Left([Fire(g, <<PeerLeftEvent(g, peerId)>>)
                       EXCEPT !.remote = RemoteDelete(@, peerId)])
          ELSE Stopping([Fire(g, MediaEvents("MediaStopped", peerId, <<Head(medias)>>))
                           EXCEPT !.audio = MediaStop(@, Head(medias))],
                        peerId, oid, Head(medias),
                        [log EXCEPT !.fired = Append(@, Head(medias))])

\* The guards of removePeer.
RemovePeerSkips(g, peerId) == peerId = g.own.id \/ peerId \notin DOMAIN g.remote

removePeer(g, peerId) ==
    IF ~g.own.defined THEN Thrown(g)
    ELSE IF RemovePeerSkips(g, peerId) THEN Left(g)
    ELSE removePeerLoop(g, peerId, g.remote[peerId],
                        [held |-> g.peers[g.remote[peerId]].medias, fired |-> <<>>])

\* removePeer resumed after `await media[1].stop()`:
\* `peer.medias.delete(media[1].id)` and the loop goes on.
removePeerResume(g, peerId, oid, media, log) ==
    removePeerLoop([g EXCEPT !.peers[oid].medias = MapDelete(@, media),
                             !.peers[oid].owner = Drop(@, media)], peerId, oid, log)

\* ---- OdinRoom.roomUpdated ------------------------------------------------
\* case 'Joined': the loop over roomUpdate.room.peers
RECURSIVE JoinedPeers(_, _)
JoinedPeers(g, peers) ==
    IF peers = <<>> THEN Completed(g)
    ELSE IF AddRemotePeerThrows(g, Head(peers).id) THEN Thrown(g)
    ELSE JoinedPeers(AnnouncePeer(addRemotePeer(g, Head(peers)), Head(peers).id),
                     Tail(peers))

\* `if (!roomUpdate.room || !roomUpdate.own_peer_id || !roomUpdate.media_ids)`:
\* the room object and the media_ids array are truthy whenever present.
JoinedMissingFields(update) == Missing(update.own_peer_id)

\* `if (!roomUpdate.peer_id)` of case 'PeerLeft'
PeerLeftMissingFields(update) == Missing(update.peer_id)

\* join() waits for the event that announces 'connected'.
WakeJoin(g, fired) ==
    IF g.pc = "waiting" /\ fired THEN [g EXCEPT !.pc = "resumed"] ELSE g

roomUpdated(g, update) ==
    CASE update.kind = "Joined" ->
           IF JoinedMissingFields(update) THEN Thrown(g)
           ELSE LET seeded == [g EXCEPT !.data = update.user_data,
                                        !.customer = update.customer,
                                        !.own = NewOwnPeer(update.own_peer_id,
                                                           update.media_ids)]
                    added == JoinedPeers(seeded, update.peers)
                IN  IF added.st = "threw" THEN added
                    ELSE Completed(WakeJoin(SetConnectionState(added.g, "connected"),
                                            added.g.cs # "connected"))
      [] update.kind = "UserDataChanged" ->
           Completed(Fire([g EXCEPT !.data = update.user_data],
                          <<Ev("UserDataChanged", "room", NoId, NoId)>>))
      [] update.kind = "PeerJoined" ->
           IF AddRemotePeerThrows(g, update.peer.id) THEN Thrown(g)
           ELSE Completed(AnnouncePeer(addRemotePeer(g, update.peer), update.peer.id))
      [] update.kind = "PeerLeft" ->
           IF PeerLeftMissingFields(update) THEN Thrown(g)
           ELSE removePeer(g, update.peer_id)

\* ---- OdinRoom.peerUpdated ------------------------------------------------
\* `const media = peer.medias.get(update.media_id); .. if (media)`
PeerHoldsAny(peer, mediaId) == TRUE
PeerHolds(peer, mediaId) == mediaId \in Range(peer.medias)

peerUpdated(g, update) ==
    IF update.peer_id \notin DOMAIN g.remote THEN Completed(g)
    ELSE
      LET oid == g.remote[update.peer_id]
          id == update.peer_id
      IN CASE update.kind = "MediaStarted" ->
                IF update.media.video THEN Completed(g)
                ELSE Completed(Fire([g EXCEPT !.peers[oid].medias =
                                                  MapSet(@, update.media.id),
                                              !.peers[oid].owner =
                                                  Put(@, update.media.id, update.peer_id)],
                                    MediaEvents("MediaStarted", id, <<update.media.id>>)))
           [] update.kind = "MediaStopped" ->
                IF Missing(update.media_id) THEN Thrown(g)
                ELSE IF ~PeerHolds(g.peers[oid], update.media_id) THEN Completed(g)
                ELSE Completed(Fire([g EXCEPT !.peers[oid].medias =
                                                  MapDelete(@, update.media_id),
                                              !.peers[oid].owner =
                                                  Drop(@, update.media_id),
                                              !.audio = MediaStop(@, update.media_id)],
                                    MediaEvents("MediaStopped", id, <<update.media_id>>)))
           [] update.kind = "UserDataChanged" ->
                Completed(Fire([g EXCEPT !.peers[oid].data = update.user_data],
                               <<Ev("UserDataChanged", "peer", id, NoId),
                                 Ev("PeerUserDataChanged", "room", id, NoId)>>))

\* ---- The MessageReceived handler of streamHandler ------------------------------
messageReceived(g, params) ==
    Fire(g, (IF params.sender_peer_id \in DOMAIN g.remote
               THEN <<Ev("MessageReceived", "peer", params.sender_peer_id, NoId)>>
               ELSE <<>>)
            \o <<Ev("MessageReceived", "room", params.sender_peer_id, NoId)>>)

\* ---- Continuations ---------------------------------------------------------
\* A continuation waiting in the microtask queue.  pc says where it resumes:
\*   "loop"      the RoomUpdated handler, after `await room.roomUpdated(update)`
\*   "left"      roomUpdated, after `await this.removePeer(..)`
\*   "stopping"  removePeer, after `await media[1].stop()`
\*   "join"      join(), after the promise that waits for 'connected'
Task(pc, n, updates, i, failed, peer, oid, media, log) ==
    [pc |-> pc, n |-> n, updates |-> updates, i |-> i, failed |-> failed,
     peer |-> peer, oid |-> oid, media |-> media, log |-> log]
JoinTask == Task("join", 0, <<>>, 0, FALSE, NoId, NoOid, NoId, NoLog)

\* The update record whose application began last, and how far it got.
Record(n, i, method, rec, status) ==
    [n |-> n, i |-> i, method |-> method, rec |-> rec, status |-> status]
NoRecord == Record(0, 0, "none", PeerLeft(NoId), "done")

\* The OdinPeer objects still referenced: by the map or by a suspended removePeer.
Alive(peers, remote, ts) ==
    [o \in {q \in DOMAIN peers :
              \/ \E id \in DOMAIN remote : remote[id] = q
              \/ \E k \in DOMAIN ts : ts[k].pc = "stopping" /\ ts[k].oid = q} |-> peers[o]]

\* The room after a handler step; a join() woken by the step is queued
\* before the continuation of the step itself.
Commit(g, ts, more) ==
    LET woken == IF g.pc = "resumed" /\ joinPc = "waiting" THEN <<JoinTask>> ELSE <<>>
        queue == ts \o woken \o more
    IN  /\ connectionState' = g.cs
        /\ ownPeer' = g.own
        /\ roomData' = g.data
        /\ customer' = g.customer
        /\ remotePeers' = g.remote
        /\ peerObjs' = Alive(g.peers, g.remote, queue)
        /\ audioMedias' = g.audio
        /\ events' = g.ev
        /\ joinPc' = g.pc
        /\ tasks' = queue

Fresh(g) == [g EXCEPT !.ev = <<>>]

\* The continuation an outcome leaves behind.
Continuation(r, n, updates, i) ==
    Task(IF r.st \in {"stopping", "left"} THEN r.st ELSE "loop",
         n, updates, i, r.st = "threw", r.peer, r.oid, r.media, r.log)

StatusOf(r) == IF r.st = "stopping" THEN "running"
               ELSE IF r.st = "threw" THEN "threw" ELSE "done"

\* `await room.roomUpdated(update)` for record i of notification n.
BeginRecord(ts, n, updates, i) ==
    LET r == roomUpdated(Fresh(Graph), updates[i])
    IN  /\ Commit(r.g, ts, <<Continuation(r, n, updates, i)>>)
        /\ current' = Record(n, i, "RoomUpdated", updates[i], StatusOf(r))

\* ---- Notifications -----------------------------------------------------------
\* Update records in one RoomUpdated notification.
MaxUpdates == 2

Notification(method, updates, params) ==
    [method |-> method, updates |-> updates, params |-> params]
NoParams == PeerUpdate("none", NoId, Audio(NoId), NoId, "")

RECURSIVE UpdateLists(_)
UpdateLists(len) ==
    IF len = 0 THEN {<<>>}
    ELSE {Append(us, r) : us \in UpdateLists(len - 1), r \in RoomRecords}

Notifications ==
    {Notification("RoomUpdated", us, NoParams) :
        us \in UNION {UpdateLists(len) : len \in 1 .. MaxUpdates}}
    \cup {Notification("PeerUpdated", <<>>, u) : u \in PeerUpdates}
    \cup {Notification("MessageReceived", <<>>, Message(2, "m1"))}

\* Notifications with a value of the wrong type or without a required field.
MalformedNotifications ==
    {Notification("RoomUpdated", <<PeerJoined(Bob), PeerLeft(NotANumber)>>, NoParams),
     Notification("PeerUpdated", <<>>,
                  PeerUpdate("MediaStarted", 2, Audio(NotANumber), NoId, "")),
     Notification("PeerUpdated", <<>>, PeerUpdate("UserDataChanged", NoId, Audio(NoId), NoId, "p3")),
     Notification("MessageReceived", <<>>, Message(NotANumber, "m1")),
     Notification("MessageReceived", <<>>, Message(2, NoMessage))}

\* ---- OdinRoom.join -----------------------------------------------------------
\* join() up to `await this._mainStream.request('JoinRoom', ..)`
join ==
    /\ joinPc \in {"idle", "failed"}
    /\ Commit([SetConnectionState(Fresh(Graph), "connecting") EXCEPT !.pc = "requesting"],
              tasks, <<>>)
    /\ UNCHANGED <<roomStream, received, dispatching, current>>

\* The JoinRoom response carries a stream id; join() goes on to openStream.
joinRoomReplied ==
    /\ joinPc = "requesting"
    /\ joinPc' = "opening"
    /\ events' = <<>>
    /\ UNCHANGED <<connectionState, ownPeer, roomData, customer, remotePeers, peerObjs,
                   audioMedias, roomStream, received, tasks, dispatching, current>>

\* openStream resolved: the room stream is stored and join() waits for the
\* ConnectionStateChanged event that announces 'connected'.
roomStreamOpened ==
    /\ joinPc = "opening"
    /\ joinPc' = "waiting"
    /\ roomStream' = "open"
    /\ events' = <<>>
    /\ UNCHANGED <<connectionState, ownPeer, roomData, customer, remotePeers, peerObjs,
                   audioMedias, received, tasks, dispatching, current>>

\* The JoinRoom request or openStream failed: the catch block of join().
JoinCatchKeepsState(g) == [g EXCEPT !.pc = "failed"]

\* `catch (e) { this.connectionState = 'error'; throw new Error(..) }`
JoinCatch(g) == [SetConnectionState(g, "error") EXCEPT !.pc = "failed"]

joinFailed ==
    /\ joinPc \in {"requesting", "opening"}
    /\ Commit(JoinCatch(Fresh(Graph)), tasks, <<>>)
    /\ UNCHANGED <<roomStream, received, dispatching, current>>

\* join() resumed: `this._ownPeer.data = userData`, PeerJoined for the own
\* peer, Joined.
joinResumed(g) ==
    [Fire([g EXCEPT !.own.data = "u1"],
          <<Ev("PeerJoined", "room", g.own.id, NoId), Ev("Joined", "room", NoId, NoId)>>)
       EXCEPT !.pc = "joined"]

\* ---- The message listener of the room stream ---------------------------------
\* A message event carrying a notification: receive, receiveRequest, the
\* handler made by makeHandler, and the handler of the method up to its
\* first await.  Nothing awaits the promise the handler returns.  A browser
\* delivers each message event in a task of its own, when the microtask
\* queue is empty; the `ws` socket of a Node.js build emits the message
\* events of the frames it read together one after the other in the same
\* task, before any continuation runs.  Whether message events are still
\* delivered after close() was called on the socket depends on the
\* WebSocket implementation as well, so both are possible.
deliver(nf) ==
    /\ roomStream \in {"open", "closing"}
    /\ tasks = <<>> \/ dispatching
    /\ received' = received + 1
    /\ CASE ~validate(nf) ->
              /\ Commit(Fresh(Graph), tasks, <<>>)
              /\ current' = Record(received + 1, 0, "dropped", PeerLeft(NoId), "threw")
         [] validate(nf) /\ nf.method = "RoomUpdated" ->
              BeginRecord(tasks, received + 1, nf.updates, 1)
         [] validate(nf) /\ nf.method = "PeerUpdated" ->
              LET r == peerUpdated(Fresh(Graph), nf.params)
              IN  /\ Commit(r.g, tasks, <<>>)
                  /\ current' = Record(received + 1, 1, "PeerUpdated", PeerLeft(NoId),
                                       StatusOf(r))
         [] validate(nf) /\ nf.method = "MessageReceived" ->
              /\ Commit(messageReceived(Fresh(Graph), nf.params), tasks, <<>>)
              /\ current' = Record(received + 1, 1, "MessageReceived", PeerLeft(NoId),
                                   "done")
    /\ dispatching' = (tasks' # <<>>)
    /\ UNCHANGED roomStream

onMessage(nf) == received < MaxNotifications /\ deliver(nf)

\* The record a continuation belongs to is the one that began last.
IsCurrent(t) == current.n = t.n /\ current.i = t.i /\ current.method = "RoomUpdated"

\* The microtask at the head of the queue runs.
step ==
    /\ tasks # <<>>
    /\ LET t == Head(tasks)
           rest == Tail(tasks)
       IN CASE t.pc = "join" ->
                 /\ Commit(joinResumed(Fresh(Graph)), rest, <<>>)
                 /\ UNCHANGED current
            [] t.pc = "loop" ->
                 IF ~t.failed /\ t.i < Len(t.updates)
                   THEN BeginRecord(rest, t.n, t.updates, t.i + 1)
                   ELSE /\ Commit(Fresh(Graph), rest, <<>>)
                        /\ UNCHANGED current
            [] t.pc = "left" ->
                 /\ Commit(Fresh(Graph), rest, <<[t EXCEPT !.pc = "loop"]>>)
                 /\ UNCHANGED current
            [] t.pc = "stopping" ->
                 LET r == removePeerResume(Fresh(Graph), t.peer, t.oid, t.media, t.log)
                 IN  /\ Commit(r.g, rest, <<Continuation(r, t.n, t.updates, t.i)>>)
                     /\ current' = IF IsCurrent(t) /\ r.st = "left"
                                     THEN [current EXCEPT !.status = "done"]
                                     ELSE current
    /\ dispatching' = FALSE
    /\ UNCHANGED <<roomStream, received>>

\* OdinRoom.disconnect()
roomDisconnect(g) ==
    SetConnectionState([g EXCEPT !.remote = EmptyFn], "disconnected")

\* OdinClient.disconnect(): `if (room.connectionState !== 'disconnected')
\* room.disconnect()`, which clears the remote peers, closes the room stream
\* and sets the state.
disconnect ==
    /\ tasks = <<>>
    /\ connectionState # "disconnected"
    /\ Commit(roomDisconnect(Fresh(Graph)), tasks, <<>>)
    /\ roomStream' = IF roomStream = "open" THEN "closing" ELSE roomStream
    /\ dispatching' = FALSE
    /\ UNCHANGED <<received, current>>

\* The close event of the room stream: the onclose handler join() installed
\* sets the state and calls disconnect(), whose close() finds no socket.
roomStreamClosed ==
    /\ tasks = <<>>
    /\ roomStream \in {"open", "closing"}
    /\ Commit(roomDisconnect(SetConnectionState(Fresh(Graph), "disconnected")), tasks, <<>>)
    /\ roomStream' = "closed"
    /\ dispatching' = FALSE
    /\ UNCHANGED <<received, current>>

\* The application calls start() on a media of a remote peer: the decoder
\* is started and the media is registered with the audio service.
startRemoteMedia(peerId, media) ==
    /\ tasks = <<>>
    /\ peerId \in DOMAIN remotePeers
    /\ media \in Range(peerObjs[remotePeers[peerId]].medias)
    /\ media \notin audioMedias
    /\ audioMedias' = audioMedias \cup {media}
    /\ dispatching' = FALSE
    /\ events' = <<>>
    /\ UNCHANGED <<connectionState, ownPeer, roomData, customer, remotePeers, peerObjs,
                   roomStream, joinPc, received, tasks, current>>

\* ---- OdinRoom.createMedia ------------------------------------------------------
\* createMedia() calls the application makes.
MaxCreateCalls == 2

\* made: calls so far; waiting: calls suspended in `await updateInputStream`;
\* peak: the most calls that were suspended together; refused: calls that
\* found the own peer holding a media; op, peer, ids: the last startMedias
\* or stopMedias call, and touched: the medias it started or stopped.
\* registry: the ids in OdinAudioService._medias, in order; starting and
\* stopping: start() calls awaiting StartMedia and stop() calls awaiting
\* StopMedia; held: whether the own peer holds its local media; encoder
\* and active: whether the encoder of the local media runs, and _active.
\* History fields of the last start or stop step: target (the media), sent
\* (the room request it sent) and ok (how the awaited request ended).
NoCalls == [made |-> 0, waiting |-> 0, peak |-> 0, refused |-> 0,
            op |-> "none", peer |-> NoId, ids |-> <<>>, touched |-> {},
            registry |-> <<>>, starting |-> 0, stopping |-> 0, held |-> TRUE,
            encoder |-> FALSE, active |-> FALSE,
            target |-> "none", sent |-> "none", ok |-> TRUE]

\* OdinPeer.createMedia: `if (this._activeMedias.size > 0) throw ..`
HoldsMediaNever(own) == FALSE
HoldsMedia(own) == own.medias # <<>>

\* OdinPeer.createMedia(): the own peer afterwards and the media it minted
\* (NoId when it threw).  takeFreeMedia() pops the last free id, and
\* `!freeMediaId` throws for a missing id as well as for id 0.
peerCreateMedia(own) ==
    IF HoldsMedia(own) THEN [own |-> own, media |-> NoId]
    ELSE IF own.freeMediaIds = <<>> THEN [own |-> own, media |-> NoId]
    ELSE LET id == own.freeMediaIds[Len(own.freeMediaIds)]
             popped == [own EXCEPT !.freeMediaIds = SubSeq(@, 1, Len(@) - 1)]
         IN  IF Missing(id) THEN [own |-> popped, media |-> NoId]
             ELSE [own |-> [popped EXCEPT !.medias = Append(@, id)], media |-> id]

\* OdinRoom.createMedia() up to `await this._audioService.updateInputStream(..)`;
\* it throws at once unless the room is connected and has its own peer.
createMedia ==
    /\ tasks = <<>>
    /\ mediaCalls.made < MaxCreateCalls
    /\ mediaCalls' =
          IF connectionState = "connected" /\ ownPeer.defined
            THEN [mediaCalls EXCEPT !.made = @ + 1, !.waiting = @ + 1,
                                    !.peak = IF mediaCalls.waiting + 1 > @
                                               THEN mediaCalls.waiting + 1 ELSE @]
            ELSE [mediaCalls EXCEPT !.made = @ + 1]
    /\ events' = <<>>
    /\ dispatching' = FALSE
    /\ UNCHANGED <<connectionState, ownPeer, roomData, customer, remotePeers, peerObjs,
                   audioMedias, roomStream, joinPc, received, tasks, current>>

\* A suspended createMedia() goes on: updateInputStream rejected (ok is
\* FALSE) and the call ends, or it resolved and the own peer the room has
\* by now is asked for a media; MediaStarted fires on the peer and the room.
createMediaResumed(ok) ==
    /\ tasks = <<>>
    /\ mediaCalls.waiting > 0
    /\ LET r == peerCreateMedia(ownPeer)
       IN  /\ ownPeer' = IF ok THEN r.own ELSE ownPeer
           /\ events' = IF ok /\ r.media # NoId
                           THEN MediaEvents("MediaStarted", ownPeer.id, <<r.media>>)
                           ELSE <<>>
           /\ mediaCalls' = [mediaCalls EXCEPT
                               !.waiting = @ - 1,
                               !.refused = IF ok /\ HoldsMedia(ownPeer) THEN @ + 1 ELSE @]
    /\ dispatching' = FALSE
    /\ UNCHANGED <<connectionState, roomData, customer, remotePeers, peerObjs,
                   audioMedias, roomStream, joinPc, received, tasks, current>>

\* The application calls start() on a media of the own peer that is not
\* started: `await this._audioService.room.addMedia(this)` requests
\* StartMedia; when that is answered (ok) the encoder is started and the
\* media is registered with the audio service.  No event is dispatched.
startOwnMedia(media, ok) ==
    /\ tasks = <<>>
    /\ ownPeer.defined
    /\ media \in Range(ownPeer.medias)
    /\ media \notin audioMedias
    /\ audioMedias' = IF ok THEN audioMedias \cup {media} ELSE audioMedias
    /\ mediaCalls' = [mediaCalls EXCEPT !.op = "start", !.peer = ownPeer.id,
                                        !.ids = <<media>>,
                                        !.touched = IF ok THEN {media} ELSE {}]
    /\ events' = <<>>
    /\ dispatching' = FALSE
    /\ UNCHANGED <<connectionState, ownPeer, roomData, customer, remotePeers, peerObjs,
                   roomStream, joinPc, received, tasks, current>>

\* The application calls stop() on a started media of the own peer:
\* `await this._audioService.room.removeMedia(this)` requests StopMedia;
\* when that is answered (ok) the encoder is stopped and the media is
\* unregistered.  The own peer keeps the media, and no event is dispatched.
stopOwnMedia(media, ok) ==
    /\ tasks = <<>>
    /\ ownPeer.defined
    /\ media \in Range(ownPeer.medias)
    /\ media \in audioMedias
    /\ audioMedias' = IF ok THEN audioMedias \ {media} ELSE audioMedias
    /\ mediaCalls' = [mediaCalls EXCEPT !.op = "stop", !.peer = ownPeer.id,
                                        !.ids = <<media>>,
                                        !.touched = IF ok THEN {media} ELSE {}]
    /\ events' = <<>>
    /\ dispatching' = FALSE
    /\ UNCHANGED <<connectionState, ownPeer, roomData, customer, remotePeers, peerObjs,
                   roomStream, joinPc, received, tasks, current>>

\* The Joined records a room receives while the application creates medias.
MediaNotifications ==
    {Notification("RoomUpdated", <<r>>, NoParams) :
        r \in JoinedRecords \cup {Joined(2, <<1, 0>>, <<>>)}}

\* A step of the room leaves the Connection alone.
RoomOnly == UNCHANGED <<streamVars, replay, mediaCalls, workletVars, client>>

NextRoom ==
    \/ join /\ RoomOnly
    \/ joinRoomReplied /\ RoomOnly
    \/ roomStreamOpened /\ RoomOnly
    \/ joinFailed /\ RoomOnly
    \/ \E nf \in Notifications \cup MalformedNotifications : onMessage(nf) /\ RoomOnly
    \/ step /\ RoomOnly
    \/ disconnect /\ RoomOnly
    \/ roomStreamClosed /\ RoomOnly
    \/ \E peerId \in PeerIds, media \in MediaIds :
          startRemoteMedia(peerId, media) /\ RoomOnly

NextMedia ==
    \/ join /\ RoomOnly
    \/ joinRoomReplied /\ RoomOnly
    \/ roomStreamOpened /\ RoomOnly
    \/ \E nf \in MediaNotifications : onMessage(nf) /\ RoomOnly
    \/ step /\ RoomOnly
    \/ disconnect /\ RoomOnly
    \/ createMedia /\ UNCHANGED <<streamVars, replay, workletVars, client>>
    \/ \E ok \in BOOLEAN :
          createMediaResumed(ok) /\ UNCHANGED <<streamVars, replay, workletVars, client>>
    \/ \E media \in MediaIds, ok \in BOOLEAN :
          startOwnMedia(media, ok) /\ UNCHANGED <<streamVars, replay, workletVars, client>>
    \/ \E media \in MediaIds, ok \in BOOLEAN :
          stopOwnMedia(media, ok) /\ UNCHANGED <<streamVars, replay, workletVars, client>>

\* join() calls, the answers to them, the Joined records of the server, and
\* the ends of the room channel.
NextJoin ==
    \/ join /\ RoomOnly
    \/ joinRoomReplied /\ RoomOnly
    \/ roomStreamOpened /\ RoomOnly
    \/ joinFailed /\ RoomOnly
    \/ \E nf \in MediaNotifications : onMessage(nf) /\ RoomOnly
    \/ step /\ RoomOnly
    \/ disconnect /\ RoomOnly
    \/ roomStreamClosed /\ RoomOnly

\* ---- OdinMedia.start, OdinMedia.stop ------------------------------------------
\* start() and stop() calls the application makes on the medias.
MaxMediaCalls == 4

\* The local media of the own peer and a media of a remote peer.
TheMedias == [local |-> 1, remote |-> 2]

\* `get started()`: `this._audioService?.hasMedia(this._id) ?? false`
Started(calls, m) == TheMedias[m] \in Range(calls.registry)

\* registerMedia: `this._medias.push(media)`
registerMedia(registry, id) == Append(registry, id)

\* unregisterMedia: `this._medias = this._medias.filter(..)`
unregisterMedia(registry, id) == SelectSeq(registry, LAMBDA x : x # id)

\* A call or a continuation begins: the history fields of the step.
Called(op, m) ==
    [mediaCalls EXCEPT !.op = op, !.target = m, !.sent = "none", !.ok = TRUE]

\* OdinMedia.stop() up to its first await or its return.
mediaStopBegins(calls, m) ==
    IF ~Started(calls, m) THEN calls
    ELSE IF m = "remote"
      THEN [calls EXCEPT !.registry = unregisterMedia(@, TheMedias[m])]
      ELSE [calls EXCEPT !.stopping = @ + 1, !.sent = "StopMedia"]

\* The application calls start() on a media.  A started media returns at
\* once; a remote media posts 'start_decoder' and is registered; a local
\* media requests StartMedia through room.addMedia and waits.
mediaStart(m) ==
    /\ mediaCalls.made < MaxMediaCalls
    /\ LET c == [Called("start", m) EXCEPT !.made = @ + 1]
       IN  mediaCalls' =
             IF Started(c, m) THEN c
             ELSE IF m = "remote"
               THEN [c EXCEPT !.registry = registerMedia(@, TheMedias[m])]
               ELSE [c EXCEPT !.starting = @ + 1, !.sent = "StartMedia"]
    /\ UNCHANGED <<streamVars, roomVars, replay, workletVars, client>>

\* StartMedia was answered or failed (remote error, timeout, closed): the
\* start() that awaited it throws, or posts 'start_encoder' and registers
\* the media.
addMediaReplied(ok) ==
    /\ mediaCalls.starting > 0
    /\ LET c == [Called("startReplied", "local") EXCEPT !.starting = @ - 1, !.ok = ok]
       IN  mediaCalls' =
             IF ok THEN [c EXCEPT !.encoder = TRUE,
                                  !.registry = registerMedia(@, TheMedias.local)]
             ELSE c
    /\ UNCHANGED <<streamVars, roomVars, replay, workletVars, client>>

\* The application calls stop() on a media.
mediaStop(m) ==
    /\ mediaCalls.made < MaxMediaCalls
    /\ mediaCalls' = mediaStopBegins([Called("stop", m) EXCEPT !.made = @ + 1], m)
    /\ UNCHANGED <<streamVars, roomVars, replay, workletVars, client>>

\* StopMedia was answered or failed: the stop() that awaited it throws,
\* or posts 'stop_encoder', clears _active and unregisters the media.
removeMediaReplied(ok) ==
    /\ mediaCalls.stopping > 0
    /\ LET c == [Called("stopReplied", "local") EXCEPT !.stopping = @ - 1, !.ok = ok]
       IN  mediaCalls' =
             IF ok THEN [c EXCEPT !.encoder = FALSE, !.active = FALSE,
                                  !.registry = unregisterMedia(@, TheMedias.local)]
             ELSE c
    /\ UNCHANGED <<streamVars, roomVars, replay, workletVars, client>>

\* The application calls removeMedia(media) on the own peer:
\* `media.stop(); this._audioService?.unregisterMedia(media);
\* this._activeMedias.delete(media.id)`; the promise of stop() is dropped.
peerRemoveMedia ==
    /\ mediaCalls.made < MaxMediaCalls
    /\ mediaCalls.held
    /\ LET c == mediaStopBegins([Called("remove", "local") EXCEPT !.made = @ + 1], "local")
       IN  mediaCalls' = [c EXCEPT !.registry = unregisterMedia(@, TheMedias.local),
                                   !.held = FALSE]
    /\ UNCHANGED <<streamVars, roomVars, replay, workletVars, client>>

\* The audio service reports that the local media, which it knows, is
\* sending: `media.active = true`.
updateMediaActivity ==
    /\ Started(mediaCalls, "local")
    /\ ~mediaCalls.active
    /\ mediaCalls' = [Called("activity", "local") EXCEPT !.active = TRUE]
    /\ UNCHANGED <<streamVars, roomVars, replay, workletVars, client>>

NextStart ==
    \/ \E m \in DOMAIN TheMedias : mediaStart(m)
    \/ \E ok \in BOOLEAN : addMediaReplied(ok)
    \/ \E m \in DOMAIN TheMedias : mediaStop(m)
    \/ \E ok \in BOOLEAN : removeMediaReplied(ok)
    \/ peerRemoveMedia
    \/ updateMediaActivity

\* ---- OdinPeer.startMedias, OdinPeer.stopMedias -----------------------------------
\* The longest id list passed.
MaxIds == 2

RECURSIVE IdListsOf(_)
IdListsOf(len) ==
    IF len = 0 THEN {<<>>}
    ELSE {Append(l, id) : l \in IdListsOf(len - 1), id \in MediaIds}
IdLists == UNION {IdListsOf(len) : len \in 0 .. MaxIds}

\* `media[0] in mediaIds`: the `in` operator on an array tells whether the
\* key is one of its indexes.
In(id, mediaIds) == id \in 0 .. Len(mediaIds) - 1

\* The medias of the peer a call with the list goes through.
Chosen(peerId, mediaIds) ==
    LET active == Range(peerObjs[remotePeers[peerId]].medias)
    IN  IF Len(mediaIds) > 0 THEN {m \in active : In(m, mediaIds)} ELSE active

\* startMedias(mediaIds) on a remote peer: start() registers each chosen
\* media that is not started.
startMedias(peerId, mediaIds) ==
    /\ tasks = <<>>
    /\ peerId \in DOMAIN remotePeers
    /\ audioMedias' = audioMedias \cup Chosen(peerId, mediaIds)
    /\ mediaCalls' = [mediaCalls EXCEPT !.op = "startMedias", !.peer = peerId,
                                        !.ids = mediaIds,
                                        !.touched = Chosen(peerId, mediaIds) \ audioMedias]
    /\ dispatching' = FALSE
    /\ events' = <<>>
    /\ UNCHANGED <<connectionState, ownPeer, roomData, customer, remotePeers, peerObjs,
                   roomStream, joinPc, received, tasks, current>>

\* stopMedias(mediaIds) on a remote peer: stop() unregisters each chosen
\* media that is started.
stopMedias(peerId, mediaIds) ==
    /\ tasks = <<>>
    /\ peerId \in DOMAIN remotePeers
    /\ audioMedias' = audioMedias \ Chosen(peerId, mediaIds)
    /\ mediaCalls' = [mediaCalls EXCEPT !.op = "stopMedias", !.peer = peerId,
                                        !.ids = mediaIds,
                                        !.touched = Chosen(peerId, mediaIds) \cap audioMedias]
    /\ dispatching' = FALSE
    /\ events' = <<>>
    /\ UNCHANGED <<connectionState, ownPeer, roomData, customer, remotePeers, peerObjs,
                   roomStream, joinPc, received, tasks, current>>

NextPeer ==
    \/ join /\ RoomOnly
    \/ joinRoomReplied /\ RoomOnly
    \/ roomStreamOpened /\ RoomOnly
    \/ \E nf \in MediaNotifications : onMessage(nf) /\ RoomOnly
    \/ step /\ RoomOnly
    \/ \E peerId \in PeerIds, mediaIds \in IdLists :
          startMedias(peerId, mediaIds) /\ UNCHANGED <<streamVars, replay, workletVars, client>>
    \/ \E peerId \in PeerIds, mediaIds \in IdLists :
          stopMedias(peerId, mediaIds) /\ UNCHANGED <<streamVars, replay, workletVars, client>>

(***************************************************************************)
(* Part III: the audio worklet (eyvor-worklet.js)                          *)
(***************************************************************************)
RenderQuantum == 128
SamplesSize == 960
DefaultNumBuffers == 3

\* Logical block indexes a 'samples' message may carry, and the block index
\* up to which the renderer is followed.
MaxIndex == 4
MaxBlocks == 2

\* An empty slot (null), and silence in the output.
NoBlock == -1
Silence == -1

\* The slot of a logical index: `index % this.buffers.length`
Slot(index) == (index % DefaultNumBuffers) + 1

\* A range of the output of one process() call: rendered at logical index
\* `index`, samples [from, to) of the block that slot held (the index it
\* was written under), or silence where the slot was empty.
Rendered(index, block, from, to) ==
    [index |-> index, block |-> block, from |-> from, to |-> to]

\* DecoderBlock constructor.  buffers: per slot, the logical index its
\* block was written under.  History fields: out, the ranges of the last
\* process() call; posted, the index of the 'decode' request it posted;
\* result, what it returned; arrived, the indexes of the blocks accepted;
\* calls, the process() calls so far; requests, the indexes of all the
\* 'decode' requests posted, in order.
InitDecoder ==
    decoder = [buffer_index |-> 0, buffer_offset |-> 0,
               buffers |-> [k \in 1 .. DefaultNumBuffers |-> NoBlock],
               alive |-> TRUE,
               out |-> <<>>, posted |-> NoBlock, result |-> TRUE, arrived |-> {},
               calls |-> 0, requests |-> <<>>]

\* on_message, case 'samples': `if (event.data.index >= this.buffer_index)`
AcceptsAnyIndex(d, index) == TRUE
Accepts(d, index) == index >= d.buffer_index

decoderSamples(index) ==
    /\ decoder' =
          IF Accepts(decoder, index)
            THEN [decoder EXCEPT !.buffers[Slot(index)] = index,
                                 !.arrived = @ \cup {index},
                                 !.out = <<>>, !.posted = NoBlock]
            ELSE [decoder EXCEPT !.out = <<>>, !.posted = NoBlock]
    /\ UNCHANGED encoder

\* on_message, case 'stop'
decoderStop ==
    /\ decoder.alive
    /\ decoder' = [decoder EXCEPT !.alive = FALSE, !.out = <<>>, !.posted = NoBlock]
    /\ UNCHANGED encoder

\* fill(outputs, start, end, offset) at logical index `index`
fill(buffers, index, start, end) ==
    IF start = end THEN <<>>
    ELSE <<Rendered(index, buffers[Slot(index)], start, end)>>

Min(a, b) == IF a < b THEN a ELSE b

\* `index: this.buffer_index + this.buffers.length` of the 'decode' request
DecodeAheadOfNext(d) == d.buffer_index + 1 + DefaultNumBuffers
DecodeAhead(d) == d.buffer_index + DefaultNumBuffers

\* process(inputs, outputs, parameters).  The browser may call it again
\* after it returned false, or not.
decoderProcess ==
    /\ decoder.buffer_index < MaxBlocks
    /\ LET d == decoder
           start == d.buffer_offset
           end == Min(start + RenderQuantum, SamplesSize)
           first == fill(d.buffers, d.buffer_index, start, end)
       IN  IF end = SamplesSize
             THEN LET left == (start + RenderQuantum) - SamplesSize
                      cleared == [d.buffers EXCEPT ![Slot(d.buffer_index)] = NoBlock]
                      second == fill(cleared, d.buffer_index + 1, 0, left)
                  IN  decoder' = [d EXCEPT
                          !.posted = DecodeAhead(d),
                          !.requests = Append(@, DecodeAhead(d)),
                          !.calls = @ + 1,
                          !.buffers = cleared,
                          !.buffer_offset = left,
                          !.buffer_index = @ + 1,
                          !.out = first \o second,
                          !.result = d.alive]
             ELSE decoder' = [d EXCEPT
                          !.posted = NoBlock,
                          !.calls = @ + 1,
                          !.buffer_offset = end,
                          !.out = first,
                          !.result = d.alive]
    /\ UNCHANGED encoder

WorkletOnly == UNCHANGED <<streamVars, roomVars, replay, mediaCalls, client>>

NextDecoder ==
    \/ \E index \in 0 .. MaxIndex : decoderSamples(index) /\ WorkletOnly
    \/ decoderStop /\ WorkletOnly
    \/ decoderProcess /\ WorkletOnly

\* ---- Encoder --------------------------------------------------------------------
\* Sample rates of the input context (the lowest every implementation
\* supports, and the codec's own), and render callbacks followed.
SampleRates == {8000, 48000}
MaxQuanta == 16

\* A position of the scratch block nothing was written to (0.0).
NoSample == -1

\* new Float32Array(length)
Fresh32(length) == [k \in 1 .. length |-> NoSample]

\* The encoder before its node is constructed, and the Encoder constructor:
\* `new Float32Array(sampleRate / 50)`, no worker yet.
\* The input samples are numbered 0, 1, 2, ..; buffer holds the number of
\* the sample at each position.  History fields: fed, the input samples
\* taken so far; posted, the block of the 'encode' message the last step
\* posted; blocks, the number of blocks posted; next, the sample after the
\* last one posted; result, what the last process() returned.
InitEncoder ==
    encoder = [worker |-> FALSE, buffer |-> <<>>, buffer_offset |-> 0, alive |-> TRUE,
               fed |-> 0, posted |-> <<>>, blocks |-> 0, next |-> 0, result |-> TRUE]

encoderNew(rate) ==
    /\ encoder.buffer = <<>>
    /\ encoder' = [encoder EXCEPT !.buffer = Fresh32(rate \div 50)]
    /\ UNCHANGED decoder

InitWorklet == InitDecoder /\ InitEncoder

\* on_message, case 'initialize'
encoderInitialize ==
    /\ encoder.buffer # <<>>
    /\ ~encoder.worker
    /\ encoder' = [encoder EXCEPT !.worker = TRUE, !.posted = <<>>]
    /\ UNCHANGED decoder

\* on_message, case 'stop'
encoderStop ==
    /\ encoder.buffer # <<>>
    /\ encoder.alive
    /\ encoder' = [encoder EXCEPT !.alive = FALSE, !.posted = <<>>]
    /\ UNCHANGED decoder

\* this.buffer.set(samples.subarray(from, from + n), at): the input quantum
\* starts with sample number `first`.
SetSamples(buffer, first, from, n, at) ==
    [k \in DOMAIN buffer |->
        IF k > at /\ k <= at + n THEN first + from + (k - at - 1) ELSE buffer[k]]

\* process(): `if (free > samples.length)`
FitsLoosely(free) == free >= RenderQuantum
Fits(free) == free > RenderQuantum

\* process(inputs, ..) with an input of 128 samples, and encode().
encoderProcess ==
    /\ encoder.buffer # <<>>
    /\ encoder.fed < MaxQuanta * RenderQuantum
    /\ LET e == encoder
           free == Len(e.buffer) - e.buffer_offset
       IN  IF Fits(free)
             THEN encoder' = [e EXCEPT
                      !.buffer = SetSamples(@, e.fed, 0, RenderQuantum, e.buffer_offset),
                      !.buffer_offset = @ + RenderQuantum,
                      !.fed = @ + RenderQuantum,
                      !.posted = <<>>,
                      !.result = e.alive]
             ELSE LET full == SetSamples(e.buffer, e.fed, 0, free, e.buffer_offset)
                      scratch == IF e.worker THEN Fresh32(Len(full)) ELSE full
                  IN  encoder' = [e EXCEPT
                          !.buffer = SetSamples(scratch, e.fed, free, RenderQuantum - free, 0),
                          !.buffer_offset = RenderQuantum - free,
                          !.fed = @ + RenderQuantum,
                          !.posted = IF e.worker THEN full ELSE <<>>,
                          !.blocks = IF e.worker THEN @ + 1 ELSE @,
                          !.next = IF e.worker THEN full[Len(full)] + 1 ELSE @,
                          !.result = e.alive]
    /\ UNCHANGED decoder

\* process() without a connected input, or with an input that is not 128
\* samples long: `return true`.
encoderProcessNoInput ==
    /\ encoder.buffer # <<>>
    /\ encoder.posted # <<>> \/ ~encoder.result
    /\ encoder' = [encoder EXCEPT !.posted = <<>>, !.result = TRUE]
    /\ UNCHANGED decoder

NextEncoder ==
    \/ \E rate \in SampleRates : encoderNew(rate) /\ WorkletOnly
    \/ encoderInitialize /\ WorkletOnly
    \/ encoderStop /\ WorkletOnly
    \/ encoderProcess /\ WorkletOnly
    \/ encoderProcessNoInput /\ WorkletOnly

(***************************************************************************)
(* Part IV: OdinClient (client.ts), one connect() call and the room it     *)
(* creates                                                                 *)
(***************************************************************************)
\* The requests of the main stream.
MainRequests == {"Authenticate", "SetupWebRtc", "JoinRoom"}

\* The stages of connect() that await something.
Stages == {"gateway", "opening", "authenticating", "rtc", "audio"}

\* OdinClient before connect().  main is the main transport (none,
\* connecting, open, closing, closed) and pending its requests without a
\* response; rooms tells whether _rooms holds the room, listening whether
\* connect() registered its Left listener on it; roomPending is a request
\* pending on the room stream.  History fields: events, the new states of
\* the ConnectionStateChanged events of the last step; thrown, the errors
\* the last step threw to the caller of initRooms; last, the call the last
\* step was; again, whether the step before was the same call.  pc2 is
\* the position of a second connect() call made while the first is in
\* progress; lostWorkers and lostMains count the workers still running and
\* the main transports still open that the client no longer refers to.
InitClient ==
    client = [state |-> "disconnected", pc |-> "idle", main |-> "none", pending |-> {},
              worker |-> "none", rtc |-> "none", audio |-> "none",
              rooms |-> FALSE, listening |-> FALSE, roomPending |-> FALSE,
              events |-> <<>>, thrown |-> 0, last |-> "none", again |-> FALSE,
              pc2 |-> "idle", lostWorkers |-> 0, lostMains |-> 0]

\* `static set connectionState(state)`
SetClientState(c, state) ==
    IF c.state = state THEN c
    ELSE [c EXCEPT !.state = state, !.events = Append(@, state)]

\* The client, the room and the room stream at the start of a step.
World ==
    [c |-> [client EXCEPT !.events = <<>>, !.thrown = 0, !.last = "other", !.again = FALSE],
     g |-> Fresh(Graph), rs |-> roomStream]

\* The step ends: the fields are written back.
Write(w) ==
    /\ client' = w.c
    /\ Commit(w.g, tasks, <<>>)
    /\ roomStream' = w.rs
    /\ dispatching' = FALSE
    /\ UNCHANGED <<received, current>>
    /\ UNCHANGED <<streamVars, replay, mediaCalls, workletVars>>

\* disconnect(), after the rooms: stopAllAudio(), close(), terminate(),
\* stopRtc(), `this._rooms = []`
DisconnectTail(w) ==
    [w EXCEPT !.c.audio = IF @ = "set" THEN "stopped" ELSE @,
              !.c.main = IF @ = "open" THEN "closing" ELSE @,
              !.c.worker = IF @ = "running" THEN "terminated" ELSE @,
              !.c.rtc = IF @ = "open" THEN "closed" ELSE @,
              !.c.rooms = FALSE]

\* OdinRoom.disconnect(); the Left event, if it fires, runs the listener
\* connect() registered, which calls OdinClient.disconnect() and finds the
\* room disconnected.
RoomDisconnect(w) ==
    LET left == [w EXCEPT !.g = roomDisconnect(w.g),
                          !.rs = IF @ = "open" THEN "closing" ELSE @]
    IN  IF w.g.cs # "disconnected" /\ w.c.listening THEN DisconnectTail(left) ELSE left

\* OdinClient.disconnect()
Disconnect(w) ==
    DisconnectTail(IF w.c.rooms /\ w.g.cs # "disconnected" THEN RoomDisconnect(w) ELSE w)

\* connect() up to its first await inside `try`: with an audio context the
\* peer connection, the worker and the audio service are created; a token
\* for the audience 'sfu' skips the gateway.
clientConnect(audio, sfu) ==
    /\ tasks = <<>>
    /\ client.pc = "idle"
    /\ LET w == World
           made == IF audio
                     THEN [w.c EXCEPT !.worker = "running", !.rtc = "open", !.audio = "set"]
                     ELSE w.c
           next == IF sfu THEN [made EXCEPT !.pc = "opening", !.main = "connecting"]
                          ELSE [made EXCEPT !.pc = "gateway"]
       IN  Write([w EXCEPT !.c = SetClientState(next, "connecting")])

\* authGateway() returned; `openStream('wss://../main', ..)`
gatewayReplied ==
    /\ tasks = <<>>
    /\ client.pc = "gateway"
    /\ Write([World EXCEPT !.c.pc = "opening", !.c.main = "connecting"])

\* openStream resolved: onclose and onerror are installed and Authenticate
\* is requested.
mainStreamOpened ==
    /\ tasks = <<>>
    /\ client.pc = "opening"
    /\ Write([World EXCEPT !.c.pc = "authenticating", !.c.main = "open",
                           !.c.pending = @ \cup {"Authenticate"}])

\* The end of `try`: the rooms are created, each with a Left listener, and
\* the state is connected.
Finish(c) ==
    SetClientState([c EXCEPT !.pc = "done", !.rooms = TRUE, !.listening = TRUE], "connected")

\* Authenticate was answered: startRtc() requests SetupWebRtc, or, without
\* an audio context, connect() finishes.
authenticated ==
    /\ tasks = <<>>
    /\ client.pc = "authenticating"
    /\ client.main = "open"
    /\ LET w == World
           c == [w.c EXCEPT !.pending = @ \ {"Authenticate"}]
       IN  Write([w EXCEPT !.c = IF c.rtc = "none" THEN Finish(c)
                                 ELSE [c EXCEPT !.pc = "rtc",
                                                !.pending = @ \cup {"SetupWebRtc"}]])

\* SetupWebRtc was answered: setupAudio() begins.
rtcAnswered ==
    /\ tasks = <<>>
    /\ client.pc = "rtc"
    /\ client.main = "open"
    /\ Write([World EXCEPT !.c.pc = "audio", !.c.pending = @ \ {"SetupWebRtc"}])

\* setupAudio() returned.
audioSetUp ==
    /\ tasks = <<>>
    /\ client.pc = "audio"
    /\ Write([World EXCEPT !.c = Finish(@)])

\* `catch (e) { this.connectionState = 'error'; throw new Error(..) }`, and
\* the catch of initRooms, which throws one error in its place.
ConnectCatch(c) ==
    SetClientState([c EXCEPT !.pc = "failed", !.thrown = @ + 1], "error")

\* A stage of connect() fails: the gateway refuses, the socket does not
\* open, a request is answered with an error or times out (the timer
\* closes the stream), createOffer or addModule rejects.
connectFailed(timeout) ==
    /\ tasks = <<>>
    /\ client.pc \in Stages
    /\ client.pc \in {"authenticating", "rtc"} => client.main = "open"
    /\ timeout => client.pc \in {"authenticating", "rtc"}
    /\ LET w == World
           c == [w.c EXCEPT !.pending = @ \ {"Authenticate", "SetupWebRtc"},
                            !.main = IF w.c.pc = "opening" THEN "closed"
                                     ELSE IF timeout THEN "closing" ELSE @]
       IN  Write([w EXCEPT !.c = ConnectCatch(c)])

\* The close event of the main stream.  The listener of the Stream rejects
\* the pending requests, whose awaiting functions run their catch blocks;
\* then the onclose handler of connect() sets the state and disconnects.
mainStreamClosed ==
    /\ tasks = <<>>
    /\ client.main \in {"open", "closing"}
    /\ LET w == World
           c1 == [w.c EXCEPT !.main = "closed", !.pending = {}]
           c2 == IF w.c.pending \cap {"Authenticate", "SetupWebRtc"} # {}
                   THEN ConnectCatch(c1) ELSE c1
           g2 == IF "JoinRoom" \in w.c.pending THEN JoinCatch(w.g) ELSE w.g
       IN  Write([Disconnect([w EXCEPT !.c = SetClientState(c2, "disconnected"), !.g = g2])
                    EXCEPT !.c.last = "mainStreamClosed"])

\* The application calls OdinClient.disconnect().
clientDisconnect ==
    /\ tasks = <<>>
    /\ Write([Disconnect(World) EXCEPT !.c.last = "disconnect",
                                       !.c.again = (client.last = "disconnect")])

\* The application calls disconnect() on the room.
clientRoomDisconnect ==
    /\ tasks = <<>>
    /\ client.listening
    /\ Write([RoomDisconnect(World) EXCEPT !.c.last = "roomDisconnect",
                                           !.c.again = (client.last = "roomDisconnect")])

\* The application calls join() on the room: the JoinRoom request is sent
\* on the main stream, or throws at once when the stream has no socket.
clientJoin ==
    /\ tasks = <<>>
    /\ client.listening
    /\ joinPc \in {"idle", "failed"}
    /\ LET w == World
           connecting == SetConnectionState(w.g, "connecting")
       IN  IF client.main = "closed"
             THEN Write([w EXCEPT !.g = JoinCatch(connecting)])
             ELSE Write([w EXCEPT !.g = [connecting EXCEPT !.pc = "requesting"],
                                  !.c.pending = @ \cup {"JoinRoom"}])

\* JoinRoom was answered, with a stream id or with an error.
clientJoinReplied(ok) ==
    /\ tasks = <<>>
    /\ joinPc = "requesting"
    /\ client.main = "open"
    /\ LET w == [World EXCEPT !.c.pending = @ \ {"JoinRoom"}]
       IN  Write([w EXCEPT !.g = IF ok THEN [w.g EXCEPT !.pc = "opening"] ELSE JoinCatch(w.g)])

\* openStream for the room stream resolved or rejected.
clientRoomStreamOpened(ok) ==
    /\ tasks = <<>>
    /\ joinPc = "opening"
    /\ LET w == World
       IN  Write(IF ok THEN [w EXCEPT !.g.pc = "waiting", !.rs = "open"]
                       ELSE [w EXCEPT !.g = JoinCatch(w.g)])

\* A request on the room stream, and its response.
clientRoomRequest ==
    /\ tasks = <<>>
    /\ roomStream \in {"open", "closing"}
    /\ ~client.roomPending
    /\ Write([World EXCEPT !.c.roomPending = TRUE])
clientRoomReplied ==
    /\ tasks = <<>>
    /\ roomStream = "open"
    /\ client.roomPending
    /\ Write([World EXCEPT !.c.roomPending = FALSE])

\* The timer of the request on the room stream fires: the request is
\* rejected and the stream closed.
clientRoomTimeout ==
    /\ tasks = <<>>
    /\ client.roomPending
    /\ Write([World EXCEPT !.c.roomPending = FALSE,
                           !.rs = IF @ = "open" THEN "closing" ELSE @])

\* The close event of the room stream: its requests are rejected; the
\* onclose handler of join() sets the state and calls disconnect().
clientRoomStreamClosed ==
    /\ tasks = <<>>
    /\ roomStream \in {"open", "closing"}
    /\ LET w == [World EXCEPT !.rs = "closed", !.c.roomPending = FALSE]
           left == [w EXCEPT !.g = SetConnectionState(w.g, "disconnected")]
           heard == IF w.g.cs # "disconnected" /\ w.c.listening THEN DisconnectTail(left)
                    ELSE left
       IN  Write([heard EXCEPT !.g = roomDisconnect(heard.g)])

\* The notification that answers a join.
JoinedNotification == Notification("RoomUpdated", <<Joined(1, <<1, 2>>, <<Bob>>)>>, NoParams)

\* A step of the room stream leaves the client alone.
ClientOnly ==
    /\ client' = World.c
    /\ UNCHANGED <<streamVars, replay, mediaCalls, workletVars>>

NextClient ==
    \/ \E audio \in BOOLEAN, sfu \in BOOLEAN : clientConnect(audio, sfu)
    \/ gatewayReplied
    \/ mainStreamOpened
    \/ authenticated
    \/ rtcAnswered
    \/ audioSetUp
    \/ \E timeout \in BOOLEAN : connectFailed(timeout)
    \/ mainStreamClosed
    \/ clientDisconnect
    \/ clientRoomDisconnect
    \/ clientJoin
    \/ \E ok \in BOOLEAN : clientJoinReplied(ok)
    \/ \E ok \in BOOLEAN : clientRoomStreamOpened(ok)
    \/ clientRoomRequest
    \/ clientRoomReplied
    \/ clientRoomTimeout
    \/ clientRoomStreamClosed
    \/ onMessage(JoinedNotification) /\ ClientOnly
    \/ step /\ ClientOnly

\* ---- A second initRooms() call ---------------------------------------------
\* `if (this.connectionState === 'connected')`, the only guard of connect()
ConnectReturnsRooms(c) == c.state = "connected"

\* initRooms() is called while the client is connected: `return this._rooms`
connectWhenConnected ==
    /\ tasks = <<>>
    /\ ConnectReturnsRooms(client)
    /\ Write([World EXCEPT !.c.last = "connect"])

\* initRooms() is called while the first connect() awaits a response on
\* the main transport it opened.  With an audio context, `this._worker =
\* new Worker(..)` and the lines after it replace the worker, the RTC
\* handler and the audio service of the first call; the worker of the first
\* call keeps running.
connectAgain(audio, sfu) ==
    /\ tasks = <<>>
    /\ client.pc \in {"authenticating", "rtc", "audio"}
    /\ client.pc2 = "idle"
    /\ ~ConnectReturnsRooms(client)
    /\ LET w == World
           made == IF audio
                     THEN [w.c EXCEPT !.lostWorkers = IF w.c.worker = "running"
                                                       THEN @ + 1 ELSE @,
                                      !.worker = "running", !.rtc = "open",
                                      !.audio = "set"]
                     ELSE w.c
           next == [made EXCEPT !.pc2 = IF sfu THEN "opening" ELSE "gateway",
                                !.last = "connect"]
       IN  Write([w EXCEPT !.c = SetClientState(next, "connecting")])

\* authGateway() returned to the second call, which opens its own socket.
gatewayRepliedAgain ==
    /\ tasks = <<>>
    /\ client.pc2 = "gateway"
    /\ Write([World EXCEPT !.c.pc2 = "opening"])

\* openStream resolved for the second call: `this._mainStream = ..` replaces
\* the transport of the first call, which stays open; the handlers are
\* installed and Authenticate is requested on the new transport.
mainStreamOpenedAgain ==
    /\ tasks = <<>>
    /\ client.pc2 = "opening"
    /\ Write([World EXCEPT !.c.pc2 = "authenticating",
                           !.c.lostMains = IF client.main \in {"open", "closing"}
                                             THEN @ + 1 ELSE @,
                           !.c.main = "open",
                           !.c.pending = @ \cup {"Authenticate"}])

\* The client with an application that calls initRooms() a second time;
\* the awaits of the first call stay pending while the second call runs.
FirstOnly == client.pc2 = "idle"

NextConnect ==
    \/ \E audio \in BOOLEAN, sfu \in BOOLEAN : clientConnect(audio, sfu)
    \/ gatewayReplied /\ FirstOnly
    \/ mainStreamOpened /\ FirstOnly
    \/ authenticated /\ FirstOnly
    \/ rtcAnswered /\ FirstOnly
    \/ audioSetUp /\ FirstOnly
    \/ \E timeout \in BOOLEAN : connectFailed(timeout) /\ FirstOnly
    \/ mainStreamClosed /\ FirstOnly
    \/ clientDisconnect /\ FirstOnly
    \/ clientRoomDisconnect /\ FirstOnly
    \/ clientJoin /\ FirstOnly
    \/ \E ok \in BOOLEAN : clientJoinReplied(ok) /\ FirstOnly
    \/ \E ok \in BOOLEAN : clientRoomStreamOpened(ok) /\ FirstOnly
    \/ clientRoomStreamClosed /\ FirstOnly
    \/ onMessage(JoinedNotification) /\ ClientOnly /\ FirstOnly
    \/ step /\ ClientOnly /\ FirstOnly
    \/ connectWhenConnected
    \/ \E audio \in BOOLEAN, sfu \in BOOLEAN : connectAgain(audio, sfu)
    \/ gatewayRepliedAgain
    \/ mainStreamOpenedAgain

(***************************************************************************)
(* Specifications                                                          *)
(***************************************************************************)
InitRoom ==
    /\ connectionState = "disconnected"
    /\ ownPeer = NoOwnPeer
    /\ roomData = ""
    /\ customer = "<no customer>"
    /\ remotePeers = EmptyFn
    /\ peerObjs = EmptyFn
    /\ audioMedias = {}
    /\ events = <<>>
    /\ roomStream = "none"
    /\ joinPc = "idle"
    /\ received = 0
    /\ tasks = <<>>
    /\ dispatching = FALSE
    /\ current = NoRecord

NoReplay == [script |-> <<>>, pass |-> 0, cursor |-> 0, threw |-> FALSE,
             first |-> <<>>]

Init ==
    /\ InitStream
    /\ InitRoom
    /\ replay = NoReplay
    /\ mediaCalls = NoCalls
    /\ InitWorklet
    /\ InitClient

Next == NextStream

Spec == Init /\ [][Next]_vars

\* The room: its join() and the notifications of its room stream.
RoomSpec == Init /\ [][NextRoom]_vars

\* The room with an application that creates local medias.
MediaSpec == Init /\ [][NextMedia]_vars

\* The decoder worklet with a codec worker that may send any block at any time.
DecoderSpec == Init /\ [][NextDecoder]_vars

\* A room whose application starts and stops the medias of remote peers.
PeerSpec == Init /\ [][NextPeer]_vars

\* The encoder worklet fed by a live input.
EncoderSpec == Init /\ [][NextEncoder]_vars

\* OdinClient and its room.
ClientSpec == Init /\ [][NextClient]_vars

\* The medias of a joined room with an application that starts and stops them.
StartSpec == Init /\ [][NextStart]_vars

\* OdinClient with a second initRooms() call.
ConnectSpec == Init /\ [][NextConnect]_vars

\* The same with what the platform guarantees: a socket on which close()
\* was called gets its close event, a timer that was set fires, and a
\* continuation that is ready runs.
ClientLiveSpec ==
    /\ ClientSpec
    /\ WF_vars(client.main = "closing" /\ mainStreamClosed)
    /\ WF_vars(roomStream = "closing" /\ clientRoomStreamClosed)
    /\ WF_vars(clientRoomTimeout)
    /\ WF_vars(step /\ ClientOnly)

\* A room that is joined, left and joined again.
JoinSpec == Init /\ [][NextJoin]_vars

\* The same with everything a waiting join() can hope for: a continuation
\* that is ready runs, the JoinRoom request and openStream settle (answered,
\* refused or timed out), and the room channel does not stay open for ever:
\* the close event comes, after close() was called or when the server ends
\* the channel.
JoinLiveSpec ==
    /\ JoinSpec
    /\ WF_vars(step /\ RoomOnly)
    /\ WF_vars((joinRoomReplied \/ roomStreamOpened \/ joinFailed) /\ RoomOnly)
    /\ WF_vars(roomStreamClosed /\ RoomOnly)

\* Timers fire, and a close() is followed by the close event.
LiveSpec ==
    /\ Init
    /\ [][Next]_vars
    /\ \A id \in Ids : WF_streamVars(timeoutFired(id))
    /\ WF_streamVars(websocket = "closing" /\ onClose)

(***************************************************************************)
(* Replaying a sequence of RoomUpdated records: the records of a script    *)
(* are applied one by one, each when the one before it is complete, and    *)
(* when the script is through it is applied once more.                     *)
(***************************************************************************)
\* Records in a script.
MaxScript == 3

\* What a replay compares: the room user data, the customer, the local
\* peer id, the remote peer ids and the medias of each remote peer.
ReplayGraph ==
    [data |-> roomData, customer |-> customer, own |-> ownPeer.id,
     remote |-> [id \in DOMAIN remotePeers |-> Range(peerObjs[remotePeers[id]].medias)]]

RECURSIVE Followers(_)
Followers(len) ==
    IF len = 0 THEN {<<>>}
    ELSE {Append(us, r) : us \in Followers(len - 1), r \in RoomRecords \ JoinedRecords}

\* A Joined record followed by UserDataChanged, PeerJoined and PeerLeft records.
Scripts ==
    {<<j>> \o us : j \in JoinedRecords,
                   us \in UNION {Followers(len) : len \in 0 .. (MaxScript - 1)}}

InitReplay ==
    /\ InitStream
    /\ InitRoom
    /\ mediaCalls = NoCalls
    /\ InitWorklet
    /\ InitClient
    /\ \E script \in Scripts :
          replay = [script |-> script, pass |-> 1, cursor |-> 1, threw |-> FALSE,
                    first |-> ReplayGraph]

Noted == [replay EXCEPT !.threw = @ \/ current'.status = "threw"]

\* The next record of the script is applied.
replayDeliver ==
    /\ tasks = <<>>
    /\ replay.pass \in {1, 2}
    /\ replay.cursor <= Len(replay.script)
    /\ deliver(Notification("RoomUpdated", <<replay.script[replay.cursor]>>, NoParams))
    /\ replay' = [Noted EXCEPT !.cursor = @ + 1]

replayStep == step /\ replay' = Noted

\* The script is through: the graph is kept and the script starts again.
replayRewind ==
    /\ tasks = <<>>
    /\ replay.pass = 1
    /\ replay.cursor > Len(replay.script)
    /\ replay' = [replay EXCEPT !.pass = 2, !.cursor = 1, !.first = ReplayGraph]
    /\ UNCHANGED roomVars

\* The script is through for the second time.
replayDone ==
    /\ tasks = <<>>
    /\ replay.pass = 2
    /\ replay.cursor > Len(replay.script)
    /\ replay' = [replay EXCEPT !.pass = 3]
    /\ UNCHANGED roomVars

NextReplay ==
    \/ join /\ RoomOnly
    \/ joinRoomReplied /\ RoomOnly
    \/ roomStreamOpened /\ RoomOnly
    \/ replayDeliver /\ UNCHANGED <<streamVars, mediaCalls, workletVars, client>>
    \/ replayStep /\ UNCHANGED <<streamVars, mediaCalls, workletVars, client>>
    \/ replayRewind /\ UNCHANGED <<streamVars, mediaCalls, workletVars, client>>
    \/ replayDone /\ UNCHANGED <<streamVars, mediaCalls, workletVars, client>>

ReplaySpec == InitReplay /\ [][NextReplay]_vars

(***************************************************************************)
(* Claims about the Connection.                                            *)
(***************************************************************************)
Frames == WireIds \X ({NoError} \cup ServerMessages)

\* C1: every request is settled at most once: whatever the interleaving of
\* its response, duplicate or late responses with its id, its timeout and
\* the close event, at most one resolve/reject call is made on its promise.
C1_SettledAtMostOnce == \A i \in Ids : Len(settled[i]) <= 1

\* Two requests raced: one failed by its timeout, the other by the close
\* that followed, and the second one's timer expired afterwards.
C1_Witness ==
    \E i, j \in Ids :
        /\ i # j
        /\ settled[i] = <<TimeoutError>>
        /\ settled[j] = <<ClosedError>>
        /\ timers[j] = "fired"

\* C2: once the close listener has dropped the network handle the pending
\* table is empty, every request that was pending at the close was failed
\* with the 'closed' error and nothing else, and no request is registered
\* on the closed Connection.
C2_ClosedHasNoPending ==
    websocket = "null" =>
        /\ requests = {}
        /\ \A i \in pendingAtClose : settled[i] = <<ClosedError>>

\* Two requests were pending at the close and a third was tried after it.
C2_Witness ==
    /\ websocket = "null"
    /\ Cardinality(pendingAtClose) >= 2
    /\ \E i \in Ids : settled[i] = <<StreamClosedError>>

\* C3 as stated: a request that times out while pending fails with the
\* timeout error, the Connection is closed, and every other request that
\* was outstanding at that moment is (if settled at all) failed with the
\* closed error.
C3_OthersFailClosed ==
    /\ \A i \in closedByTimer :
          settled[i] = <<TimeoutError>> /\ websocket \in {"closing", "null"}
    /\ \A j \in outstandingAtTimeout : settled[j] \in {<<>>, <<ClosedError>>}

\* C3 amended: a request that times out while pending fails with the
\* timeout error and close() is called on the Connection; every other
\* request outstanding at that moment is settled afterwards, exactly once:
\* with the closed error if it is still pending when the close event is
\* delivered, otherwise by its own timeout or by its response.
C3_TimeoutClosesConnection ==
    /\ [](\A i \in closedByTimer :
             settled[i] = <<TimeoutError>> /\ websocket \in {"closing", "null"})
    /\ [](\A j \in outstandingAtTimeout :
             /\ Len(settled[j]) <= 1
             /\ j \in pendingAtClose => settled[j] = <<ClosedError>>
             /\ (settled[j] # <<>> /\ j \notin pendingAtClose) =>
                   \/ settled[j] = <<TimeoutError>> /\ j \in closedByTimer
                   \/ settled[j] = <<Resolved>>
                   \/ \E m \in ServerMessages : settled[j] = <<Rejected(m)>>)
    /\ \A j \in Ids : (j \in outstandingAtTimeout) ~> (settled[j] # <<>>)

\* One request timed out, another was outstanding then and was failed by
\* the close event that followed.
C3_Witness ==
    \E i, j \in Ids :
        /\ i \in closedByTimer
        /\ j \in outstandingAtTimeout
        /\ j \in pendingAtClose
        /\ settled[j] = <<ClosedError>>

\* C4: a request registered with a positive timeout is eventually settled.
C4_EventuallySettled ==
    \A i \in Ids :
        (i \in requests /\ streamTimeout > 0) ~> (i \notin requests /\ Len(settled[i]) = 1)

\* A request registered with a positive timeout has been settled.
C4_Witness ==
    \E i \in Ids :
        /\ streamTimeout > 0
        /\ timers[i] \in {"cleared", "fired"}
        /\ i \notin requests
        /\ Len(settled[i]) = 1

\* C5: a response frame settles the pending request whose id it carries,
\* resolving on a null error and rejecting with the server's message
\* otherwise, and leaves every other entry alone; a frame whose id has no
\* pending entry changes nothing.
C5_ResponseSettlesOnlyItsOwn ==
    [][\A f \in Frames :
          receiveResponse(f[1], f[2]) =>
             /\ \A j \in Ids \ {f[1]} :
                   /\ (j \in requests') = (j \in requests)
                   /\ settled'[j] = settled[j]
                   /\ timers'[j] = timers[j]
             /\ f[1] \in requests =>
                   /\ f[1] \notin requests'
                   /\ settled'[f[1]] = Append(settled[f[1]],
                         IF f[2] = NoError THEN Resolved ELSE Rejected(f[2]))
             /\ f[1] \notin requests => UNCHANGED <<requests, settled, timers>>
      ]_vars

\* Responses arrived out of order: the last request was answered while the
\* first is still pending, and another one was rejected by the server.
C5_Witness ==
    /\ 0 \in requests
    /\ settled[MaxRequests - 1] = <<Resolved>>
    /\ \E i \in Ids, m \in ServerMessages : settled[i] = <<Rejected(m)>>

\* C6: a timer closes the Connection only for a request that was still
\* pending when it fired: the only outcome of such a request is its own
\* timeout error.  The timer of a request that a response settled or the
\* close listener removed closes nothing and fails nobody.
C6_TimeoutsPerRequest ==
    /\ \A i \in closedByTimer : settled[i] = <<TimeoutError>>
    /\ \A i \in Ids :
          (settled[i] # <<>> /\ settled[i][1] # TimeoutError) => i \notin closedByTimer

\* The timer of a request that the close listener had removed has fired,
\* and the timer of an answered request was cleared.
C6_Witness ==
    \E i, j \in Ids :
        /\ timers[i] = "fired"
        /\ settled[i] = <<ClosedError>>
        /\ i \notin closedByTimer
        /\ timers[j] = "cleared"

(***************************************************************************)
(* Claims about the Room reducer.                                          *)
(***************************************************************************)
\* A step in which the application of an update record begins.
Began == current'.n # current.n \/ current'.i # current.i
BeganRoomUpdate(kind) ==
    Began /\ current'.method = "RoomUpdated" /\ current'.rec.kind = kind

PayloadIds(peers) == {peers[k].id : k \in DOMAIN peers}
AudioIds(medias) == {medias[k].id : k \in {j \in DOMAIN medias : ~medias[j].video}}

\* C7: applying a Joined record (own peer id o, free media ids M, room user
\* data and customer, snapshot peer list P with distinct ids other than o)
\* to a connecting room that has no remote peer leaves the room connected,
\* with a local peer of id o holding the free ids M, the user data and the
\* customer of the record, and one remote peer per entry of P, keyed by its
\* id and holding the audio medias listed for it.
C7_JoinedSeedsRoom ==
    [][(/\ connectionState = "connecting"
        /\ remotePeers = EmptyFn
        /\ BeganRoomUpdate("Joined")
        /\ Cardinality(PayloadIds(current'.rec.peers)) = Len(current'.rec.peers)
        /\ current'.rec.own_peer_id \notin PayloadIds(current'.rec.peers))
       => LET rec == current'.rec
          IN  /\ current'.status = "done"
              /\ connectionState' = "connected"
              /\ ownPeer'.defined
              /\ ownPeer'.id = rec.own_peer_id
              /\ ownPeer'.freeMediaIds = rec.media_ids
              /\ roomData' = rec.user_data
              /\ customer' = rec.customer
              /\ DOMAIN remotePeers' = PayloadIds(rec.peers)
              /\ \A k \in DOMAIN rec.peers :
                    Range(peerObjs'[remotePeers'[rec.peers[k].id]].medias)
                        = AudioIds(rec.peers[k].medias)]_vars

\* A Joined record with own peer id 0 was applied to the connecting room: it
\* threw, the room is still connecting and has no local peer.
C7_Witness ==
    /\ current.method = "RoomUpdated"
    /\ current.rec = Joined(0, <<1, 2>>, <<Bob>>)
    /\ current.status = "threw"
    /\ connectionState = "connecting"
    /\ ~ownPeer.defined
    /\ remotePeers = EmptyFn

\* C8: update records are applied strictly in receipt order: when the
\* application of a record begins, the record that began before it is
\* complete (its graph mutation and its events are done, or it threw), and
\* it is an earlier record of the same notification or a record of an
\* earlier notification.
C8_AppliedInReceiptOrder ==
    [][Began => /\ current.status # "running"
                /\ \/ current'.n > current.n
                   \/ current'.n = current.n /\ current'.i > current.i]_vars

\* The first notification left with a PeerLeft record: while removePeer
\* waits for the stop of the peer's media (MediaStopped fired, PeerLeft not
\* yet, the peer still in the map), the record of the second notification
\* has been applied.
C8_Witness ==
    /\ current.n = 2
    /\ \E k \in DOMAIN tasks :
          /\ tasks[k].pc = "stopping"
          /\ tasks[k].n = 1
          /\ tasks[k].peer \in DOMAIN remotePeers

\* The room graph.
RoomGraph == <<connectionState, ownPeer, roomData, customer, remotePeers, peerObjs,
               audioMedias>>

\* C9: in a joined room, applying PeerLeft for a peer id that is not in the
\* remote set is a no-op: it does not throw, the room graph is unchanged
\* and no event fires; and the second of two PeerLeft records in a row for
\* the same id is such a no-op.
C9_PeerLeftOfAbsentPeerIsNoop ==
    [][(/\ ownPeer.defined
        /\ BeganRoomUpdate("PeerLeft")
        /\ \/ current'.rec.peer_id \notin DOMAIN remotePeers
           \/ /\ current.method = "RoomUpdated"
              /\ current.rec = current'.rec)
       => /\ current'.status = "done"
          /\ RoomGraph' = RoomGraph
          /\ events' = <<>>]_vars

\* C10: for every script (a Joined record followed by UserDataChanged,
\* PeerJoined and PeerLeft records), applying the script twice in a row
\* does not throw and leaves the room graph as one application left it.
C10_ReplayIsIdempotent ==
    (/\ replay.pass = 3
     /\ Head(replay.script).own_peer_id \notin PayloadIds(Head(replay.script).peers))
    => (~replay.threw /\ ReplayGraph = replay.first)

\* A script with a PeerLeft for peer id 0 went through twice: the local peer
\* has id 1, the graph is as the first pass left it, and a record threw.
C10_Witness ==
    /\ replay.pass = 3
    /\ ownPeer.defined /\ ownPeer.id = 1
    /\ Head(replay.script).peers = <<>>
    /\ \E k \in DOMAIN replay.script : replay.script[k] = PeerLeft(0)
    /\ ReplayGraph = replay.first
    /\ replay.threw

\* In a joined room whose remote set does not hold peer 0, a PeerLeft
\* record for peer 0 threw.
C9_Witness ==
    /\ ownPeer.defined
    /\ connectionState = "connected"
    /\ 0 \notin DOMAIN remotePeers
    /\ current.method = "RoomUpdated"
    /\ current.rec = PeerLeft(0)
    /\ current.status = "threw"

\* A step that ends the application of a PeerLeft record for a peer that
\* was in the remote set when the application began: at once, or when
\* removePeer is through with the medias of the peer.
PeerLeftOfPresentPeerEnds ==
    \/ /\ BeganRoomUpdate("PeerLeft")
       /\ current'.rec.peer_id \in DOMAIN remotePeers
       /\ current'.status # "running"
    \/ /\ ~Began
       /\ current.method = "RoomUpdated" /\ current.rec.kind = "PeerLeft"
       /\ current.status = "running"
       /\ current'.status # "running"

\* The medias the leaving peer holds before the step.
LeavingMedias ==
    IF current'.rec.peer_id \in DOMAIN remotePeers
      THEN Range(peerObjs[remotePeers[current'.rec.peer_id]].medias)
      ELSE {}

\* C11: after a PeerLeft record for a peer id present in the remote set has
\* been applied, the id is absent from the remote set, the peer object is
\* no longer held (its media set was emptied) and none of its medias is
\* still registered with the audio service; for every peer id under which
\* Joined or PeerJoined can have inserted a remote peer.
C11_PeerLeftRemovesPeer ==
    [][PeerLeftOfPresentPeerEnds
       => /\ current'.status = "done"
          /\ current'.rec.peer_id \notin DOMAIN remotePeers'
          /\ LeavingMedias \cap audioMedias' = {}
          /\ \A o \in DOMAIN peerObjs' : peerObjs'[o].id # current'.rec.peer_id]_vars

\* Peer 0 came with the snapshot of Joined, one of its medias was started,
\* and a PeerLeft record for peer 0 threw: the peer is still in the remote
\* set and its media is still registered.
C11_Witness ==
    /\ current.method = "RoomUpdated"
    /\ current.rec = PeerLeft(0)
    /\ current.status = "threw"
    /\ 0 \in DOMAIN remotePeers
    /\ Range(peerObjs[remotePeers[0]].medias) \cap audioMedias # {}

\* A step that begins the application of PeerJoined, in a joined room, for
\* a peer id that is neither the local peer's nor in the remote set.
NewPeerJoins ==
    /\ ownPeer.defined
    /\ BeganRoomUpdate("PeerJoined")
    /\ current'.rec.peer.id # ownPeer.id
    /\ current'.rec.peer.id \notin DOMAIN remotePeers

AllIds(medias) == {medias[k].id : k \in DOMAIN medias}

\* After the step one more remote peer is in the room, holding the medias
\* `held`; PeerJoined fired once, first, and after it one MediaStarted on
\* the peer and one on the room for each media held, and nothing else.
PeerJoinedWith(held) ==
    LET id == current'.rec.peer.id
        At(e) == {k \in DOMAIN events' : events'[k] = e}
    IN  /\ current'.status = "done"
        /\ DOMAIN remotePeers' = DOMAIN remotePeers \cup {id}
        /\ \A q \in DOMAIN remotePeers :
              peerObjs'[remotePeers'[q]] = peerObjs[remotePeers[q]]
        /\ peerObjs'[remotePeers'[id]].id = id
        /\ Range(peerObjs'[remotePeers'[id]].medias) = held
        /\ Len(events') = 1 + 2 * Cardinality(held)
        /\ At(Ev("PeerJoined", "room", id, NoId)) = {1}
        /\ \A m \in held :
              /\ Cardinality(At(Ev("MediaStarted", "peer", id, m))) = 1
              /\ Cardinality(At(Ev("MediaStarted", "room", id, m))) = 1

\* C12 as stated: applying PeerJoined for a peer id that is neither the
\* local peer's nor present inserts one remote peer holding the medias of
\* the payload and fires PeerJoined once, followed by one MediaStarted on
\* the peer and on the room per media of the payload.
C12_PeerJoinedHoldsPayloadMedias ==
    [][NewPeerJoins => PeerJoinedWith(AllIds(current'.rec.peer.medias))]_vars

\* C12, amended: the same with the medias of the payload that are not of
\* kind video; a video media is neither held nor announced.
C12_PeerJoinedHoldsAudioMedias ==
    [][NewPeerJoins => PeerJoinedWith(AudioIds(current'.rec.peer.medias))]_vars

\* PeerJoined for peer 2 with an audio media 1 and a video media 2 was
\* applied to a joined room without peer 2: the peer holds media 1 only,
\* and three events fired.
C12_Witness ==
    /\ current.method = "RoomUpdated"
    /\ current.rec = PeerJoined(Bob)
    /\ current.status = "done"
    /\ 2 \in DOMAIN remotePeers
    /\ peerObjs[remotePeers[2]].medias = <<1>>
    /\ events = <<Ev("PeerJoined", "room", 2, NoId), Ev("MediaStarted", "peer", 2, 1),
                  Ev("MediaStarted", "room", 2, 1)>>

\* The places of the events of a type among the events of the step.
Fired(type) == {k \in DOMAIN events' : events'[k].type = type}

\* C13: every change of the connection state fires exactly one
\* ConnectionStateChanged event, whose oldState is the previous state and
\* differs from its newState; a step that leaves the state as it is fires
\* none; and a change to disconnected fires Left exactly once, also when
\* the close handler of the room stream and disconnect() both run.
C13_StateChangeFiresOnce ==
    [][IF connectionState' # connectionState
         THEN /\ Cardinality(Fired("ConnectionStateChanged")) = 1
              /\ \A k \in Fired("ConnectionStateChanged") :
                    /\ events'[k] = StateChanged(connectionState, connectionState')
                    /\ events'[k].oldState # events'[k].newState
              /\ Cardinality(Fired("Left")) =
                    IF connectionState' = "disconnected" THEN 1 ELSE 0
         ELSE Fired("ConnectionStateChanged") = {} /\ Fired("Left") = {}]_vars

\* The room stream of a connected room closed by itself: the close handler
\* set the state and called disconnect(); one change and one Left fired.
C13_Witness ==
    /\ roomStream = "closed"
    /\ connectionState = "disconnected"
    /\ remotePeers = EmptyFn
    /\ events = <<StateChanged("connected", "disconnected"), Ev("Left", "room", NoId, NoId)>>

\* The transitions of the connection state the specification lists.
ListedTransitions ==
    {<<"disconnected", "connecting">>, <<"connecting", "connected">>,
     <<"connected", "disconnected">>, <<"connecting", "disconnected">>,
     <<"connecting", "error">>}

\* C14: every change of the connection state of a room is a listed
\* transition: disconnected to connecting, connecting to connected (and only
\* in the step that applies a Joined record), connected or connecting to
\* disconnected, connecting to error; connected and error are entered from
\* connecting only.
C14_OnlyListedTransitions ==
    [][connectionState' # connectionState =>
          /\ <<connectionState, connectionState'>> \in ListedTransitions
          /\ connectionState' = "connected" => BeganRoomUpdate("Joined")]_vars

\* The room was left while JoinRoom was outstanding; the request then failed
\* and the catch block of join() moved the room from disconnected to error.
C14_Witness ==
    /\ joinPc = "failed"
    /\ connectionState = "error"
    /\ events = <<StateChanged("disconnected", "error")>>

C16_MalformedNotificationIsDropped ==
    [][\A nf \in MalformedNotifications :
          onMessage(nf) =>
             /\ UNCHANGED RoomGraph
             /\ events' = <<>>
             /\ UNCHANGED <<tasks, roomStream, joinPc>>]_vars

\* A malformed notification was dropped in a joined room that holds peers.
C16_Witness ==
    /\ current.method = "dropped"
    /\ connectionState = "connected"
    /\ roomStream = "open"
    /\ 2 \in DOMAIN remotePeers

\* The continuation of the RoomUpdated handler runs with records left.
ResumesWithRecordsLeft ==
    /\ tasks # <<>>
    /\ Head(tasks).pc = "loop"
    /\ Head(tasks).i < Len(Head(tasks).updates)
    /\ received' = received
    /\ tasks' # tasks

\* C17: a reducer error raised by one update record is isolated to that
\* record: when the handler of a RoomUpdated notification resumes after a
\* record, thrown or not, and records are left, the next record of the
\* notification is applied.
C17_ReducerErrorIsIsolated ==
    [][ResumesWithRecordsLeft =>
          /\ current'.method = "RoomUpdated"
          /\ current'.n = Head(tasks).n
          /\ current'.i = Head(tasks).i + 1
          /\ current'.rec = Head(tasks).updates[current'.i]]_vars

\* A PeerLeft record without peer_id threw in a joined room and a valid
\* PeerJoined record of the same notification is still to be applied.
C17_Witness ==
    /\ connectionState = "connected"
    /\ tasks # <<>>
    /\ Head(tasks).pc = "loop"
    /\ Head(tasks).failed
    /\ Head(tasks).updates = <<PeerLeft(NoId), PeerJoined(Bob)>>
    /\ Head(tasks).i = 1

(***************************************************************************)
(* Claims about inbound frames.                                            *)
(***************************************************************************)
\* C18: an inbound frame that is not a sequence starting with an integer
\* type tag in {0, 1, 2}, or whose arity or field types do not match its
\* tag, is dropped: no handler is invoked, no response frame is sent, no
\* pending request is settled, the table of pending requests is unchanged
\* and the Connection stays as it was.
C18_MalformedFrameIsDropped ==
    [][\A frame \in MalformedFrames :
          receive(frame) =>
             /\ ~inbound'.handler
             /\ ~inbound'.sent
             /\ UNCHANGED <<requests, settled, timers, websocket>>]_vars

\* A request frame whose id is not an integer reached the handler and was
\* answered while a request was pending.
C18_Witness ==
    /\ inbound.frame = ArrayFrame(<<Num(0), Frac, Str("RoomUpdated"), Obj>>)
    /\ inbound.handler
    /\ inbound.sent
    /\ requests # {}

\* Frames with the tag of a response and how many of error and result are set.
ResponseFrames == {f \in InboundFrames : f.kind = "array" /\ Len(f.items) = 4
                                         /\ f.items[1] = Num(1)}
FieldsSet(frame) ==
    Cardinality({k \in {3, 4} : frame.items[k] # Null})

\* C19 as stated: a response frame settles a request only if exactly one of
\* its error and result fields is non-null; a frame with both null or both
\* non-null is rejected and settles nothing.
C19_ExactlyOneOfErrorAndResult ==
    [][\A frame \in ResponseFrames :
          receive(frame) =>
             /\ inbound'.hit => FieldsSet(frame) = 1
             /\ FieldsSet(frame) # 1 =>
                   /\ inbound'.branch = "invalid response"
                   /\ UNCHANGED <<requests, settled, timers>>]_vars

\* C19: a response frame settles a request only if at most one of its
\* error and result fields is non-null.  A frame with both non-null is
\* rejected and settles nothing; a frame with both null is accepted and
\* resolves the pending request of its id.
C19_AtMostOneOfErrorAndResult ==
    [][\A frame \in ResponseFrames :
          receive(frame) =>
             /\ inbound'.hit => FieldsSet(frame) <= 1
             /\ FieldsSet(frame) = 2 =>
                   /\ inbound'.branch = "invalid response"
                   /\ UNCHANGED <<requests, settled, timers>>
             /\ \A id \in requests :
                   frame = BothNull(id) =>
                      /\ inbound'.hit
                      /\ requests' = requests \ {id}
                      /\ settled' = Settle(settled, id, Resolved)]_vars

\* A response with error and result both null resolved the pending request 0.
C19_Witness ==
    /\ inbound.frame = BothNull(0)
    /\ inbound.hit
    /\ settled[0] = <<Resolved>>
    /\ 0 \notin requests

(***************************************************************************)
(* Claims about local medias.                                              *)
(***************************************************************************)
\* C20: the local peer holds at most one media in every state; a
\* createMedia() that resumes while the local peer holds a media leaves the
\* peer as it is and fires no MediaStarted, also when several calls were
\* suspended together.
C20_AtMostOneLocalMedia ==
    [][/\ Len(ownPeer.medias) <= 1
       /\ Len(ownPeer'.medias) <= 1
       /\ (mediaCalls'.waiting < mediaCalls.waiting /\ ownPeer.medias # <<>>) =>
              /\ ownPeer' = ownPeer
              /\ events' = <<>>]_vars

\* Two createMedia() calls were suspended together; the first to resume
\* minted a media and the second was refused.
C20_Witness ==
    /\ mediaCalls.peak = 2
    /\ mediaCalls.waiting = 0
    /\ mediaCalls.refused = 1
    /\ Len(ownPeer.medias) = 1

\* A suspended createMedia() call resumes in this step.
CreateMediaResumes == mediaCalls'.waiting < mediaCalls.waiting

\* C21: the client never invents a media id.  When createMedia() resumes,
\* every media the local peer holds afterwards was held before or comes
\* from its pool of free ids; an id leaves the pool only in a step that
\* creates the media with that id; and with an empty pool no media is
\* created.
C21_MediaIdsComeFromThePool ==
    [][CreateMediaResumes =>
          /\ Range(ownPeer'.medias) \subseteq
                 Range(ownPeer.medias) \cup Range(ownPeer.freeMediaIds)
          /\ \A id \in Range(ownPeer.freeMediaIds) \ Range(ownPeer'.freeMediaIds) :
                 id \in Range(ownPeer'.medias) \ Range(ownPeer.medias)
          /\ ownPeer.freeMediaIds = <<>> => ownPeer'.medias = ownPeer.medias]_vars

\* The pool was [1, 0]: createMedia() took id 0 out of the pool and threw,
\* so the local peer has no media and id 0 is gone.
C21_Witness ==
    /\ ownPeer.defined
    /\ ownPeer.id = 2
    /\ ownPeer.freeMediaIds = <<1>>
    /\ ownPeer.medias = <<>>
    /\ mediaCalls.made = 1
    /\ mediaCalls.waiting = 0
    /\ mediaCalls.refused = 0

\* C22: in the decoder ring buffer, whatever 'samples' messages arrive and
\* whenever, a slot holding a block the renderer has not fully consumed is
\* never overwritten by a block of another logical index, and every sample
\* rendered at logical index i comes from the block written under i or is
\* silence.
C22_SlotsAreNotOverwrittenOrMisread ==
    [][/\ decoder'.buffer_index = decoder.buffer_index =>
             \A k \in 1 .. DefaultNumBuffers :
                 decoder.buffers[k] # NoBlock /\ decoder.buffers[k] >= decoder.buffer_index
                     => decoder'.buffers[k] = decoder.buffers[k]
       /\ \A r \in Range(decoder'.out) : r.block \in {Silence, r.index}]_vars

\* Block 3 was accepted into the slot of block 0 while the renderer was
\* still at index 0, and its samples were rendered there.
C22_Witness ==
    /\ decoder.arrived = {0, 3}
    /\ decoder.buffer_index = 0
    /\ \E r \in Range(decoder.out) : r.index = 0 /\ r.block = 3

\* The samples one process() call rendered.
RenderedSamples(out) ==
    IF out = <<>> THEN 0
    ELSE IF Len(out) = 1 THEN out[1].to - out[1].from
    ELSE (out[1].to - out[1].from) + (out[2].to - out[2].from)

\* C23: a block that has not arrived when the renderer reaches its index is
\* rendered as silence, and the renderer keeps its cadence (128 samples a
\* callback, 960 samples an index, the next index from its first sample); a
\* block arriving after its span is discarded; a block that has arrived is
\* played from the position the renderer is at, block i+1 from sample 0.
C23_MissingBlockIsSilence ==
    [][/\ \A r \in Range(decoder'.out) :
             r.block = IF r.index \in decoder.arrived THEN r.index ELSE Silence
       /\ decoder'.out # <<>> =>
             /\ RenderedSamples(decoder'.out) = RenderQuantum
             /\ decoder'.out[1].index = decoder.buffer_index
             /\ decoder'.out[1].from = decoder.buffer_offset
             /\ decoder'.buffer_index # decoder.buffer_index =>
                   /\ decoder'.buffer_index = decoder.buffer_index + 1
                   /\ decoder'.out[1].to = SamplesSize
                   /\ \A k \in 2 .. Len(decoder'.out) :
                          /\ decoder'.out[k].index = decoder'.buffer_index
                          /\ decoder'.out[k].from = 0
                          /\ decoder'.out[k].to = decoder'.buffer_offset
       /\ \A index \in 0 .. MaxIndex :
             index < decoder.buffer_index /\ decoderSamples(index)
                 => decoder'.buffers = decoder.buffers]_vars

\* Block 0 never arrived, block 3 did, and the renderer played block 3 at
\* index 0 instead of silence.
C23_Witness ==
    /\ decoder.arrived = {3}
    /\ decoder.buffer_index = 0
    /\ \E r \in Range(decoder.out) : r.index = 0 /\ r.block # Silence

\* What C24 requires of the decoder, and of the encoder.
DecoderStaysStopped ==
    ~decoder.alive =>
        /\ \A k \in 1 .. DefaultNumBuffers :
               decoder'.buffers[k] \in {decoder.buffers[k], NoBlock}
        /\ decoder'.posted = NoBlock
        /\ decoderProcess => ~decoder'.result
EncoderStaysStopped ==
    ~encoder.alive =>
        /\ encoder'.posted = <<>>
        /\ encoderProcess \/ encoderProcessNoInput => ~encoder'.result

\* C24: once 'stop' has been processed by the decoder or the encoder, no
\* sample block is written into a slot, no decode request and no encode
\* block is posted, and every later render callback returns false.
C24_StopSuspendsProduction ==
    [][DecoderStaysStopped /\ EncoderStaysStopped]_vars

\* The stopped decoder has posted a decode request.
C24_Witness ==
    /\ ~decoder.alive
    /\ decoder.posted = DefaultNumBuffers
    /\ ~decoder.result

\* The process() step fills the scratch block: `free <= samples.length`.
BlockBecomesFull == encoderProcess /\ ~Fits(Len(encoder.buffer) - encoder.buffer_offset)

\* The block handed over is the input from sample `first` on, in order, of
\* exactly the block length.
HandsOver(first) ==
    /\ Len(encoder'.posted) = Len(encoder.buffer)
    /\ \A k \in 1 .. Len(encoder'.posted) : encoder'.posted[k] = first + (k - 1)
    /\ encoder'.blocks = encoder.blocks + 1
    /\ \A k \in encoder'.buffer_offset + 1 .. Len(encoder'.buffer) : encoder'.buffer[k] = NoSample

\* C25 as stated: every input quantum is appended in order, the write
\* offset stays within [0, block length), and every block that becomes full
\* is handed over once, so that the blocks handed over are the input from
\* its first sample on, without a gap or a repetition.
C25_EverySampleIsHandedOverOnce ==
    [][encoderProcess =>
          /\ encoder'.buffer_offset \in 0 .. Len(encoder.buffer) - 1
          /\ IF BlockBecomesFull THEN HandsOver(encoder.next)
                                 ELSE encoder'.posted = <<>> /\ encoder'.blocks = encoder.blocks]_vars

\* C25, amended: the same once 'initialize' has been processed, the first
\* block handed over starting where the block that became full started; a
\* block that becomes full before 'initialize' is not handed over and the
\* scratch block is reused.
C25_EverySampleIsHandedOverOnceInitialized ==
    [][encoderProcess =>
          /\ encoder'.buffer_offset \in 0 .. Len(encoder.buffer) - 1
          /\ IF BlockBecomesFull /\ encoder.worker
                THEN /\ HandsOver(encoder'.fed - encoder'.buffer_offset - Len(encoder.buffer))
                     /\ encoder.blocks > 0 => encoder'.posted[1] = encoder.next
                ELSE encoder'.posted = <<>> /\ encoder'.blocks = encoder.blocks]_vars

\* The first full block was dropped for want of a worker, the second one
\* was handed over.
C25_Witness ==
    /\ encoder.worker
    /\ encoder.blocks = 1
    /\ encoder.posted # <<>>
    /\ encoder.posted[1] = SamplesSize

\* C26: when a stage of connect() fails, what was opened so far is unwound
\* (the main transport is not left open, the worker is not left running,
\* nor the peer connection and the audio service), the client's state is
\* error and the caller gets one error.
C26_FailedConnectUnwinds ==
    [][client.pc \in Stages /\ client'.pc = "failed" =>
          /\ client'.main # "open"
          /\ client'.worker # "running"
          /\ client'.rtc # "open"
          /\ client'.audio # "set"
          /\ client'.state = "error"
          /\ client'.thrown = 1]_vars

\* Authenticate failed: the state is error, one error was thrown, and the
\* main stream is open and the worker running.
C26_Witness ==
    /\ client.pc = "failed"
    /\ client.state = "error"
    /\ client.thrown = 1
    /\ client.main = "open"
    /\ client.worker = "running"

\* The client without its history fields.
Fields(c) == [c EXCEPT !.events = <<>>, !.thrown = 0, !.last = "none", !.again = FALSE]

\* The step leaves rooms, streams and connection states as they were and
\* fires no event.
ChangesNothing ==
    /\ Fields(client') = Fields(client)
    /\ UNCHANGED <<connectionState, ownPeer, roomData, customer, remotePeers, peerObjs,
                   audioMedias, roomStream, joinPc, received, tasks, current>>
    /\ events' = <<>>
    /\ client'.events = <<>>

\* C27: OdinClient.disconnect() or OdinRoom.disconnect() called again
\* after a previous call, or OdinClient.disconnect() called before any
\* connection exists, throws nothing, fires no event and changes nothing;
\* a disconnect that re-enters through the Left listener fires Left once.
C27_TeardownIsIdempotent ==
    [][/\ client'.again => ChangesNothing
       /\ client.pc = "idle" /\ client'.last = "disconnect" => ChangesNothing
       /\ client'.last \in {"disconnect", "roomDisconnect"} =>
             /\ client'.thrown = 0
             /\ Cardinality({k \in DOMAIN events' : events'[k].type = "Left"}) <= 1]_vars

\* room.disconnect() was called a second time on a room the first call
\* left, with the main stream still closing.
C27_Witness ==
    /\ client.again
    /\ client.last = "roomDisconnect"
    /\ connectionState = "disconnected"
    /\ roomStream = "closing"
    /\ client.main = "closing"
    /\ ~client.rooms

\* The close event of the main stream has just been handled.
MainTransportClosed == client.last = "mainStreamClosed"

\* C28: after the main transport closes, eventually no request is pending
\* on the main stream or on the room stream, the room the client created
\* is disconnected, and the client's state is disconnected.
C28_CloseCancelsEverything ==
    /\ MainTransportClosed ~> (client.pending = {} /\ ~client.roomPending)
    /\ MainTransportClosed ~> (connectionState = "disconnected")
    /\ MainTransportClosed ~> (client.state = "disconnected")

\* The main stream closed while the room, which _rooms no longer held, was
\* waiting for the answer to JoinRoom: the room is left in error.
C28_Witness ==
    /\ MainTransportClosed
    /\ client.listening
    /\ connectionState = "error"
    /\ client.state = "disconnected"
    /\ client.pending = {}

\* The active medias of the peer of the last startMedias or stopMedias call.
ActiveMedias(peerId) == Range(peerObjs[remotePeers[peerId]].medias)

\* C30: startMedias(ids) with a non-empty list starts exactly the active
\* medias of the peer whose id is an element of ids, and all of them
\* without a list or with an empty one; stopMedias(ids) stops exactly those
\* whose id is an element of ids; other medias are left as they are.
C30_ListedMediasAreStartedAndStopped ==
    [][\A peerId \in PeerIds, mediaIds \in IdLists :
          LET listed == IF mediaIds = <<>> THEN ActiveMedias(peerId)
                        ELSE {m \in ActiveMedias(peerId) : m \in Range(mediaIds)}
          IN  /\ startMedias(peerId, mediaIds) => audioMedias' = audioMedias \cup listed
              /\ stopMedias(peerId, mediaIds) => audioMedias' = audioMedias \ listed]_vars

\* startMedias([0, 0]) on the peer with the medias 1 and 2 started media 1.
C30_Witness ==
    /\ mediaCalls.op = "startMedias"
    /\ mediaCalls.peer = 2
    /\ mediaCalls.ids = <<0, 0>>
    /\ mediaCalls.touched = {1}
    /\ audioMedias = {1}

\* The medias the remote peers of the room hold, as <<peer id, media id>>.
RemoteMedias(remote, peers) ==
    {pm \in PeerIds \X MediaIds :
        pm[1] \in DOMAIN remote /\ pm[2] \in Range(peers[remote[pm[1]]].medias)}

OnRoom(type, peerId, media) == Ev(type, "room", peerId, media) \in Range(events')

\* C29: while the room is connected, a MediaStarted event is emitted on
\* the room for every media added (of a peer in the Joined record, of a
\* peer joining later, started by a remote peer, created by the own peer),
\* and a MediaStopped event for every media removed or stopped, the own
\* peer's included.
C29_MediaEventsForAllMedias ==
    [][connectionState' = "connected" =>
          /\ \A pm \in RemoteMedias(remotePeers', peerObjs') \ RemoteMedias(remotePeers, peerObjs) :
                 OnRoom("MediaStarted", pm[1], pm[2])
          /\ connectionState = "connected" =>
                 \A pm \in RemoteMedias(remotePeers, peerObjs) \ RemoteMedias(remotePeers', peerObjs') :
                     OnRoom("MediaStopped", pm[1], pm[2])
          /\ ownPeer'.id = ownPeer.id =>
                 /\ \A m \in Range(ownPeer'.medias) \ Range(ownPeer.medias) :
                        OnRoom("MediaStarted", ownPeer.id, m)
                 /\ \A m \in (Range(ownPeer.medias) \cap audioMedias) \ audioMedias' :
                        OnRoom("MediaStopped", ownPeer.id, m)]_vars

\* The own media 2 was stopped and no event was dispatched.
C29_Witness ==
    /\ connectionState = "connected"
    /\ mediaCalls.op = "stop"
    /\ mediaCalls.touched = {2}
    /\ ownPeer.medias = <<2>>
    /\ audioMedias = {}
    /\ events = <<>>
(***************************************************************************)
(* Claims about a peer that leaves.                                        *)
(***************************************************************************)
\* C31: whenever PeerLeft fires, the leaving peer is no longer in the remote
\* set a listener of the event finds.
C31_PeerIsGoneWhenPeerLeftFires ==
    [][\A k \in Fired("PeerLeft") : events'[k].peer \notin events'[k].listed]_vars

\* PeerLeft fired for peer 2, whose listeners found peer 2 among the remote
\* peers; the peer was deleted from the map after they ran.
C31_Witness ==
    /\ \E k \in DOMAIN events :
          /\ events[k].type = "PeerLeft"
          /\ events[k].peer = 2
          /\ 2 \in events[k].listed
    /\ 2 \notin DOMAIN remotePeers

\* The MediaStopped events of the step on one scope for a media of a peer.
StoppedOn(scope, peerId, media) ==
    Cardinality({k \in DOMAIN events' :
                    events'[k] = Ev("MediaStopped", scope, peerId, media)})

\* The step fires PeerLeft for the peer, once, and nothing else.
FiresPeerLeftAlone(peerId) ==
    /\ Len(events') = 1
    /\ events'[1].type = "PeerLeft"
    /\ events'[1].peer = peerId

\* The step fires MediaStopped for one media the peer held when PeerLeft was
\* applied, once on the peer and once on the room, and nothing else; the
\* application of the record goes on.
FiresOneStop(peerId, held) ==
    \E m \in Range(held) : events' = MediaEvents("MediaStopped", peerId, <<m>>)

\* C32: when PeerLeft is applied for a present peer holding k medias, every
\* step of the application fires either one MediaStopped on the peer and one
\* on the room for a media of the peer, or, at the end, PeerLeft alone; when
\* PeerLeft fires, each of the k medias has been announced exactly once; and
\* in every step the MediaStopped events on a peer and on the room match.
C32_MediaStoppedPairsBeforePeerLeft ==
    [][/\ \A p \in PeerIds, m \in MediaIds :
             StoppedOn("peer", p, m) = StoppedOn("room", p, m)
       /\ (BeganRoomUpdate("PeerLeft") /\ current'.rec.peer_id \in DOMAIN remotePeers)
          => LET p == current'.rec.peer_id
                 held == peerObjs[remotePeers[p]].medias
             IN  IF held = <<>> THEN FiresPeerLeftAlone(p) ELSE FiresOneStop(p, held)
       /\ (step /\ Head(tasks).pc = "stopping")
          => LET t == Head(tasks)
             IN  IF Fired("PeerLeft") # {}
                   THEN /\ FiresPeerLeftAlone(t.peer)
                        /\ Len(t.log.fired) = Len(t.log.held)
                        /\ Range(t.log.fired) = Range(t.log.held)
                   ELSE FiresOneStop(t.peer, t.log.held)]_vars

\* Peer 0 holds media 1 and a PeerLeft record for peer 0 was applied: it
\* threw before any event was fired.
C32_Witness ==
    /\ current.method = "RoomUpdated"
    /\ current.rec = PeerLeft(0)
    /\ current.status = "threw"
    /\ 0 \in DOMAIN remotePeers
    /\ peerObjs[remotePeers[0]].medias = <<1>>
    /\ events = <<>>

\* C33: in a joined room, applying PeerJoined for a peer id that is already
\* in the remote set is a no-op: it does not throw, the remote set, the peer
\* object it holds for the id and the rest of the room graph are unchanged,
\* and no event fires.
C33_DuplicatePeerJoinedIsNoop ==
    [][(/\ ownPeer.defined
        /\ BeganRoomUpdate("PeerJoined")
        /\ current'.rec.peer.id \in DOMAIN remotePeers)
       => /\ current'.status = "done"
          /\ RoomGraph' = RoomGraph
          /\ events' = <<>>]_vars

\* Peers 0 and 2 came with the snapshot of Joined, peer 2 holding media 1;
\* the next notification carried PeerJoined for peer 2 with medias 2 and 1:
\* peer 2 was replaced by a peer holding both, and PeerJoined fired again.
C33_Witness ==
    /\ current.n = 2
    /\ current.method = "RoomUpdated"
    /\ current.rec = PeerJoined(BobAgain)
    /\ current.status = "done"
    /\ DOMAIN remotePeers = {0, 2}
    /\ peerObjs[remotePeers[2]].medias = <<2, 1>>
    /\ events = <<Ev("PeerJoined", "room", 2, NoId),
                  Ev("MediaStarted", "peer", 2, 2), Ev("MediaStarted", "room", 2, 2),
                  Ev("MediaStarted", "peer", 2, 1), Ev("MediaStarted", "room", 2, 1)>>

(***************************************************************************)
(* Claims about the renderer of the decoder.                               *)
(***************************************************************************)
\* A process() call that reaches the end of the block it reads.
ExhaustsBlock ==
    /\ decoder'.calls = decoder.calls + 1
    /\ decoder.buffer_offset + RenderQuantum >= SamplesSize

\* C34: a process() call that exhausts the block of logical index i clears
\* the slot of i, advances to index i + 1 and posts one 'decode' request,
\* for index i + N; any other call posts none and stays at its index; so
\* the requests posted so far carry the indexes N, N + 1, N + 2, .. in this
\* order, one per block exhausted; and after k calls the reader is 128 * k
\* sample positions on: 960 * index + offset = 128 * k, 0 <= offset < 960.
C34_ReaderAdvancesAndRequestsAhead ==
    [][(decoder'.calls # decoder.calls)
       => /\ decoder'.calls = decoder.calls + 1
          /\ IF ExhaustsBlock
               THEN /\ decoder'.buffers[Slot(decoder.buffer_index)] = NoBlock
                    /\ decoder'.buffer_index = decoder.buffer_index + 1
                    /\ decoder'.posted = decoder.buffer_index + DefaultNumBuffers
                    /\ decoder'.requests = Append(decoder.requests, decoder'.posted)
               ELSE /\ decoder'.buffer_index = decoder.buffer_index
                    /\ decoder'.posted = NoBlock
                    /\ decoder'.requests = decoder.requests
          /\ Len(decoder'.requests) = decoder'.buffer_index
          /\ \A j \in DOMAIN decoder'.requests :
                decoder'.requests[j] = DefaultNumBuffers + j - 1
          /\ SamplesSize * decoder'.buffer_index + decoder'.buffer_offset
                = RenderQuantum * decoder'.calls
          /\ decoder'.buffer_offset >= 0
          /\ decoder'.buffer_offset < SamplesSize]_vars

\* Fifteen callbacks have run: the reader exhausted the blocks 0 and 1,
\* stands at offset 0 of block 2, and posted the requests for 3 and 4.
C34_Witness ==
    /\ decoder.calls = 15
    /\ decoder.buffer_index = 2
    /\ decoder.buffer_offset = 0
    /\ decoder.requests = <<3, 4>>
    /\ decoder.posted = 4

(***************************************************************************)
(* Claims about the peers and medias of a room.                            *)
(***************************************************************************)
\* C35: in every reachable state of a room the id of the local peer is not
\* a key of the remote set, and every media a remote peer holds carries the
\* id of that peer as its owning peer id.
C35_OwnPeerIsNotRemote ==
    /\ ownPeer.defined => ownPeer.id \notin DOMAIN remotePeers
    /\ \A p \in DOMAIN remotePeers :
          LET peer == peerObjs[remotePeers[p]]
          IN  /\ peer.id = p
              /\ DOMAIN peer.owner = Range(peer.medias)
              /\ \A m \in Range(peer.medias) : peer.owner[m] = p

\* The room was joined as peer 1 with the remote peers 2 and 0, and a
\* second Joined record named 2 as the own peer id: the local peer has id 2
\* and a remote peer is kept under the key 2.
C35_Witness ==
    /\ ownPeer.defined
    /\ ownPeer.id = 2
    /\ DOMAIN remotePeers = {0, 2}
    /\ current.rec = Joined(2, <<1, 0>>, <<>>)
    /\ current.status = "done"

\* C36: a PeerUpdated notification (MediaStarted, MediaStopped or
\* UserDataChanged) for a peer id that is not in the remote set, the id of
\* the local peer included, leaves the room graph unchanged and fires no
\* event; and so does a MediaStopped for a media id the addressed peer does
\* not hold.
C36_PeerUpdatedOfAbsentTargetIsNoop ==
    [][\A u \in PeerUpdates :
          (/\ onMessage(Notification("PeerUpdated", <<>>, u))
           /\ \/ u.peer_id \notin DOMAIN remotePeers
              \/ /\ u.kind = "MediaStopped"
                 /\ u.media_id \notin Range(peerObjs[remotePeers[u.peer_id]].medias))
          => /\ RoomGraph' = RoomGraph
             /\ events' = <<>>]_vars

\* The room was joined as peer 1 with no remote peer, and the second
\* notification was a PeerUpdated, addressed to peer 2 or to the local
\* peer: the room still has no remote peer, and no event fired.
C36_Witness ==
    /\ connectionState = "connected"
    /\ ownPeer.defined /\ ownPeer.id = 1
    /\ remotePeers = EmptyFn
    /\ current.n = 2
    /\ current.method = "PeerUpdated"
    /\ current.status = "done"
    /\ events = <<>>

(***************************************************************************)
(* Claims about join().                                                    *)
(***************************************************************************)
\* A join() call that has neither resolved nor rejected.
JoinPending == joinPc \in {"requesting", "opening", "waiting", "resumed"}

\* C37: every join() call eventually settles: it resolves with the own peer
\* or it rejects; also when the room channel closes, or the room is
\* disconnected, before a Joined record was applied.
C37_JoinEventuallySettles == JoinPending ~> (joinPc \in {"joined", "failed"})

\* The room channel opened and closed again before any notification came:
\* the room is disconnected and join() still waits for 'connected'.
C37_Witness ==
    /\ joinPc = "waiting"
    /\ roomStream = "closed"
    /\ connectionState = "disconnected"
    /\ received = 0
    /\ tasks = <<>>

(***************************************************************************)
(* Claims about the resources of the client.                               *)
(***************************************************************************)
\* The codec workers that run and the main transports that are open.
OpenWorkers == (IF client.worker = "running" THEN 1 ELSE 0) + client.lostWorkers
OpenMains == (IF client.main \in {"open", "closing"} THEN 1 ELSE 0) + client.lostMains

\* C38: at most one main transport and one codec worker are open per client
\* at any time; a connect made while the client is connected opens nothing,
\* and a connect made while an earlier one is in progress opens no second
\* transport or worker.
C38_OneTransportOneWorker ==
    [][/\ OpenWorkers' <= 1
       /\ OpenMains' <= 1
       /\ client'.last = "connect"
          => /\ OpenWorkers' = OpenWorkers
             /\ OpenMains' = OpenMains
             /\ client'.pc2 = "idle"]_vars

\* Both calls had an audio context: the second call has opened its main
\* transport, and the worker and the transport of the first call, still
\* running and open, are no longer referred to.
C38_Witness ==
    /\ client.pc = "authenticating"
    /\ client.pc2 = "authenticating"
    /\ client.worker = "running"
    /\ client.main = "open"
    /\ client.lostWorkers = 1
    /\ client.lostMains = 1

(***************************************************************************)
(* Claims about start() and stop() of a media.                             *)
(***************************************************************************)
\* The entries the registry of the audio service holds for an id.
Entries(registry, id) == Cardinality({k \in DOMAIN registry : registry[k] = id})

\* C39: the registry of the audio service never holds two entries for the
\* same media id, and StartMedia is sent for the local media only when it
\* is not started and no StartMedia sent for it is still awaited, whatever
\* the order of the start() and stop() calls.
C39_RegisteredOnceStartedOnce ==
    [][/\ \A m \in DOMAIN TheMedias : Entries(mediaCalls'.registry, TheMedias[m]) <= 1
       /\ mediaCalls'.sent = "StartMedia"
          => ~Started(mediaCalls, "local") /\ mediaCalls.starting = 0]_vars

\* Two start() calls were made on the local media before StartMedia was
\* answered, and both requests succeeded: the registry holds the media
\* twice.
C39_Witness ==
    /\ mediaCalls.made = 2
    /\ mediaCalls.starting = 0
    /\ mediaCalls.op = "startReplied"
    /\ mediaCalls.registry = <<TheMedias.local, TheMedias.local>>

\* The steps in which start() or stop() resumes after its room request.
Resumed == {"startReplied", "stopReplied"}

\* C40: the local media changes its started state only in a step in which
\* its StartMedia or StopMedia request succeeded; a successful StartMedia
\* starts the encoder and registers the media, a successful StopMedia stops
\* the encoder, clears the active flag and unregisters it; a failed request
\* leaves the registry, the active flag and the encoder as they were; a
\* start() or stop() that has work to do on the local media sends its
\* request, and no request is sent for the media of a remote peer.
C40_StartedFollowsTheRoomRequest ==
    [][/\ Started(mediaCalls', "local") # Started(mediaCalls, "local")
          => mediaCalls'.op \in Resumed /\ mediaCalls'.ok
       /\ mediaCalls'.op = "startReplied" /\ mediaCalls'.ok
          => mediaCalls'.encoder /\ Started(mediaCalls', "local")
       /\ mediaCalls'.op = "stopReplied" /\ mediaCalls'.ok
          => /\ ~mediaCalls'.encoder
             /\ ~mediaCalls'.active
             /\ ~Started(mediaCalls', "local")
       /\ mediaCalls'.op \in Resumed /\ ~mediaCalls'.ok
          => /\ mediaCalls'.registry = mediaCalls.registry
             /\ mediaCalls'.active = mediaCalls.active
             /\ mediaCalls'.encoder = mediaCalls.encoder
       /\ mediaCalls'.op = "start" /\ mediaCalls'.target = "local"
          => (mediaCalls'.sent = "StartMedia") = ~Started(mediaCalls, "local")
       /\ mediaCalls'.op = "stop" /\ mediaCalls'.target = "local"
          => (mediaCalls'.sent = "StopMedia") = Started(mediaCalls, "local")
       /\ mediaCalls'.sent # "none" => mediaCalls'.target = "local"]_vars

\* The own peer removed its started local media and the StopMedia request
\* failed: the media is not started any more while its encoder runs.
C40_Witness ==
    /\ mediaCalls.op = "stopReplied"
    /\ ~mediaCalls.ok
    /\ ~mediaCalls.held
    /\ ~Started(mediaCalls, "local")
    /\ mediaCalls.encoder

====
